---- MODULE Spec2Model ----
(***************************************************************************)
(* A model of ESP32_MenuSystem (src/src/ESP32_MenuSystem.h, .cpp): the      *)
(* menu structure, the navigation / value-adjust state machine, and the     *)
(* button and encoder input handlers that drive it.                         *)
(*                                                                          *)
(* Indices (currentMenuIndex, cursorPosition, menu ids) are 0-based as in   *)
(* the C++ code; the TLA+ sequences that hold menus and items are 1-based,  *)
(* so menus[i] of the code is menus[i + 1] here.                            *)
(***************************************************************************)
EXTENDS Integers, Sequences, FiniteSets, TLC

\* ------------------------------------------------------------------ bounds
\* The model builds at most MaxMenus menus holding at most MaxTotalItems items
\* in all; the capacities of the code are MAX_MENU_DEPTH and MAX_MENU_ITEMS.
MaxMenus == 2
MaxTotalItems == 2
\* The menus of SpecCursor hold at most MaxN items each.
MaxN == 3
\* The millisecond clock of the model is ClockBits wide (millis() is 32 bits).
ClockBits == 7
\* The raw encoder count the model reads lies in -EncRange .. EncRange.
EncRange == 2
\* The bounds of the numeric adjusters lie in 0 .. MaxV whole units; the
\* arguments of setValue reach a unit and a half beyond them on either side.
MaxV == 1
\* The sketches of SpecEncoder construct the system with a sensitivity of
\* 1 .. MaxSens, and run until MaxTally step events went one way or the sum
\* of the signs of the observed position changes is MaxTally either way.
MaxSens == 2
MaxTally == 3
\* The sketches of SpecBuild stop adding once MaxRejected of the callback
\* objects they created were not stored in a menu.
MaxRejected == 2

\* ---------------------------------------------------------------- constants
MAX_MENU_ITEMS == 16
MAX_MENU_DEPTH == 32
ADJUSTER_TYPE_FLOAT == 0
ADJUSTER_TYPE_INT == 1
ADJUSTER_TYPE_BOOL == 2
debounceDelay == 50

INPUT_BUTTONS == "INPUT_BUTTONS"
INPUT_ENCODER == "INPUT_ENCODER"

\* The null pointer of a MenuItem::valueAdjuster / currentValueAdjuster.
nullptr == "nullptr"

\* The value adjusters the sketch constructs: one FloatValueAdjuster "F",
\* one IntValueAdjuster "I" and one BoolValueAdjuster "B", each bound to an
\* external variable.  Adjusters are the ones the sketches of Spec bind to
\* menu items.
Adjusters == {"F", "B"}
AllAdjusters == {"F", "I", "B"}

\* getType() of each adjuster.
getType(adj) ==
    IF adj = "B" THEN ADJUSTER_TYPE_BOOL
    ELSE IF adj = "I" THEN ADJUSTER_TYPE_INT
    ELSE ADJUSTER_TYPE_FLOAT

\* A float is modelled in fixed point: the number n stands for n / Scale, so
\* 1.0f is Scale and the whole numbers (the values of an int) are the
\* multiples of Scale.
Scale == 2

\* static_cast<int>(float): the fraction is dropped, towards zero.
TruncToInt(v) ==
    IF v >= 0 THEN v - (v % Scale) ELSE -((-v) - ((-v) % Scale))

\* Clock arithmetic: unsigned subtraction of the model's width.
ClockMod == 2 ^ ClockBits
\* Milliseconds that pass between two update() cycles.
Ticks == {32, 64}

VARIABLES
    menus,                  \* Menu menus[]; menuCount = Len(menus)
    currentMenuIndex,
    cursorPosition,
    isValueAdjustMode,
    currentValueAdjuster,
    value,                  \* the external variable each adjuster is bound to
    tempValue,              \* BoolValueAdjuster::tempValue
    adjCfg,                 \* increment, minValue, maxValue, wrapAround of
                            \* the numeric adjusters (set by the constructor)
    inputMode,
    buttonUpState, buttonDownState, buttonOkState,
    lastButtonUpState, lastButtonDownState, lastButtonOkState,
    encoderButtonState, lastEncoderButtonState,
    lastDebounceTime,
    now,                    \* millis()
    encoderCount,           \* encoder->getCount()
    lastEncoderValue,
    encoderAccumulator,
    encoderSensitivity,
    errorCode,
    errorMessage,           \* "" when errorMessage[0] is '\0'
    fired,                  \* history: callbacks executed by the last operation
    events,                 \* history: events the last update() dispatched
    sessionDir,             \* history: last directional event of the edit session
    sessionEntry,           \* history: stored boolean when the session began
    lastOp,                 \* history: "select", "goBack", "update" or
                            \* "setValue" when that was the last call, else
                            \* "other"
    called,                 \* history: adjuster and argument of the sketch's
                            \* last own call of setValue
    held,                   \* history, per button: for how long the level
                            \* update() samples has been asserted without a
                            \* change (debounceDelay + 1: for longer)
    emitted,                \* history, per button: events dispatched for it
                            \* since its level was first sampled asserted
    fresh,                  \* history, per button: its debounced state was
                            \* "released" when that happened
    tally,                  \* history of the encoder: the signs of the
                            \* position changes update() observed, summed,
                            \* and the step events it dispatched each way
    returned,               \* history: what the last addMenu returned
    heap,                   \* history: MenuCallback objects created for the
                            \* system, and deleted by its destructor
    screenHeight,           \* uint16_t
    titleHeight, separatorY, menuStartY, lineHeight,    \* uint8_t
    menuItemsVisible,       \* uint8_t
    menuItemPadding,        \* uint8_t
    window                  \* history: displayStart and visibleItems of the
                            \* list the sketch's last own call of
                            \* displayMenu() drew

\* The members of the layout.
layoutVars == <<screenHeight, titleHeight, separatorY, menuStartY, lineHeight,
                menuItemsVisible, menuItemPadding>>

vars == <<menus, currentMenuIndex, cursorPosition, isValueAdjustMode,
          currentValueAdjuster, value, tempValue, adjCfg, inputMode,
          buttonUpState, buttonDownState, buttonOkState,
          lastButtonUpState, lastButtonDownState, lastButtonOkState,
          encoderButtonState, lastEncoderButtonState, lastDebounceTime, now,
          encoderCount, lastEncoderValue, encoderAccumulator,
          encoderSensitivity, errorCode, errorMessage, fired, events,
          sessionDir, sessionEntry, lastOp, called, held, emitted, fresh,
          tally, returned, heap, layoutVars, window>>

menuCount == Len(menus)

\* Constructor arguments of the FloatValueAdjuster and of the
\* IntValueAdjuster (increment, min, max, wrap).
FloatCfg == adjCfg["F"]
IntCfg == adjCfg["I"]

\* ------------------------------------------------------------ menu items
\* MenuItem(name, nextId, cb, adjuster); callback is TRUE when the item holds
\* a MenuCallback object.
MenuItem(nextId, cb, adjuster) ==
    [nextMenuId |-> nextId, callback |-> cb, valueAdjuster |-> adjuster]

\* Menu(title, menuId): a menu with no items.
Menu(menuId) == [id |-> menuId, items |-> <<>>, maxVisibleItems |-> 0]

\* Menu::addItem that stores the item in the last slot of a full menu.
addItemOverwritesLast(menu, nextId, cb, adjuster) ==
    IF Len(menu.items) < MAX_MENU_ITEMS
    THEN [menu EXCEPT !.items = Append(@, MenuItem(nextId, cb, adjuster))]
    ELSE [menu EXCEPT !.items[MAX_MENU_ITEMS] = MenuItem(nextId, cb, adjuster)]

\* Menu::addItem: appends unless the menu is full.
addItem(menu, nextId, cb, adjuster) ==
    IF Len(menu.items) < MAX_MENU_ITEMS
    THEN [menu EXCEPT !.items = Append(@, MenuItem(nextId, cb, adjuster))]
    ELSE menu

TotalItems(ms) ==
    LET RECURSIVE Sum(_)
        Sum(i) == IF i = 0 THEN 0 ELSE Len(ms[i].items) + Sum(i - 1)
    IN Sum(Len(ms))

\* ------------------------------------------------------- value adjusters
\* getValue(): the bound variable as a number (Boolean: 0 / 1).
getValue(s, adj) ==
    IF getType(adj) = ADJUSTER_TYPE_BOOL
    THEN (IF s.value[adj] THEN Scale ELSE 0)
    ELSE s.value[adj]

getIncrement(adj) ==
    IF getType(adj) = ADJUSTER_TYPE_BOOL THEN Scale
    ELSE IF getType(adj) = ADJUSTER_TYPE_INT THEN IntCfg.increment
    ELSE FloatCfg.increment

\* FloatValueAdjuster::setValue that checks the upper bound only.
FloatSetValueUpperOnly(newValue) ==
    IF newValue > FloatCfg.maxValue
    THEN (IF FloatCfg.wrapAround THEN FloatCfg.minValue ELSE FloatCfg.maxValue)
    ELSE newValue

\* FloatValueAdjuster::setValue: the number it stores for newValue.
FloatSetValue(newValue) ==
    IF FloatCfg.wrapAround
    THEN IF newValue > FloatCfg.maxValue THEN FloatCfg.minValue
         ELSE IF newValue < FloatCfg.minValue THEN FloatCfg.maxValue
         ELSE newValue
    ELSE LET lo == IF newValue < FloatCfg.minValue THEN FloatCfg.minValue ELSE newValue
         IN IF lo > FloatCfg.maxValue THEN FloatCfg.maxValue ELSE lo

\* IntValueAdjuster::setValue that wraps to the bound it has passed.
IntSetValueSameBound(newValue) ==
    LET intValue == TruncToInt(newValue)
    IN IF intValue > IntCfg.maxValue THEN IntCfg.maxValue
       ELSE IF intValue < IntCfg.minValue THEN IntCfg.minValue
       ELSE intValue

\* IntValueAdjuster::setValue: the number it stores for newValue.
IntSetValue(newValue) ==
    LET intValue == TruncToInt(newValue)
    IN IF IntCfg.wrapAround
       THEN IF intValue > IntCfg.maxValue THEN IntCfg.minValue
            ELSE IF intValue < IntCfg.minValue THEN IntCfg.maxValue
            ELSE intValue
       ELSE LET lo == IF intValue < IntCfg.minValue THEN IntCfg.minValue
                      ELSE intValue
            IN IF lo > IntCfg.maxValue THEN IntCfg.maxValue ELSE lo

\* setValue whose Boolean case stores "newValue is not zero".
setValueStoresArgument(s, adj, newValue) ==
    IF getType(adj) = ADJUSTER_TYPE_BOOL
    THEN [s EXCEPT !.value[adj] = (newValue # 0)]
    ELSE IF getType(adj) = ADJUSTER_TYPE_INT
    THEN [s EXCEPT !.value[adj] = IntSetValue(newValue)]
    ELSE [s EXCEPT !.value[adj] = FloatSetValue(newValue)]

\* setValue through the ValueAdjuster interface (virtual dispatch on the
\* adjuster's class): BoolValueAdjuster::setValue toggles the bound boolean.
setValue(s, adj, newValue) ==
    IF getType(adj) = ADJUSTER_TYPE_BOOL
    THEN [s EXCEPT !.value[adj] = ~@]
    ELSE IF getType(adj) = ADJUSTER_TYPE_INT
    THEN [s EXCEPT !.value[adj] = IntSetValue(newValue)]
    ELSE [s EXCEPT !.value[adj] = FloatSetValue(newValue)]

\* BoolValueAdjuster::setTempValue / applyTempValue.
setTempValue(s, b) == [s EXCEPT !.tempValue = b]
applyTempValue(s, adj) == [s EXCEPT !.value[adj] = s.tempValue]

\* History only: update() dispatched a directional event to a Boolean edit
\* target.
noteDir(s, d) ==
    IF s.isValueAdjustMode /\ s.currentValueAdjuster # nullptr
       /\ getType(s.currentValueAdjuster) = ADJUSTER_TYPE_BOOL
    THEN [s EXCEPT !.sessionDir = d]
    ELSE s

\* --------------------------------------------------------------- lookups
\* findMenuById: the index of the first menu with that id, or -1.
findMenuById(id) ==
    LET hits == {i \in 0 .. menuCount - 1 : menus[i + 1].id = id}
    IN IF hits = {} THEN -1 ELSE CHOOSE i \in hits : \A j \in hits : i <= j

\* getCurrentMenu: TRUE when it returns a menu (not nullptr); the menu is then
\* CurrentMenu(s).
getCurrentMenu(s) == s.currentMenuIndex >= 0 /\ s.currentMenuIndex < menuCount
CurrentMenu(s) == menus[s.currentMenuIndex + 1]
itemCount(s) == Len(CurrentMenu(s).items)

\* getCurrentMenuId: the id of the active menu, -1 when there is none.
getCurrentMenuId(s) ==
    IF s.currentMenuIndex >= 0 /\ s.currentMenuIndex < menuCount
    THEN menus[s.currentMenuIndex + 1].id
    ELSE -1

\* ------------------------------------------------------------ navigation
\* moveUp that steps a numeric edit target by twice the increment.
moveUpDoubleStep(s) ==
    IF s.isValueAdjustMode /\ s.currentValueAdjuster # nullptr
    THEN IF getType(s.currentValueAdjuster) = ADJUSTER_TYPE_BOOL
         THEN setTempValue(s, TRUE)
         ELSE setValue(s, s.currentValueAdjuster,
                       getValue(s, s.currentValueAdjuster)
                         + 2 * getIncrement(s.currentValueAdjuster))
    ELSE IF s.cursorPosition > 0
         THEN [s EXCEPT !.cursorPosition = @ - 1]
         ELSE IF getCurrentMenu(s)
              THEN [s EXCEPT !.cursorPosition = itemCount(s) - 1]
              ELSE s

moveUp(s) ==
    IF s.isValueAdjustMode /\ s.currentValueAdjuster # nullptr
    THEN IF getType(s.currentValueAdjuster) = ADJUSTER_TYPE_BOOL
         THEN setTempValue(s, TRUE)
         ELSE setValue(s, s.currentValueAdjuster,
                       getValue(s, s.currentValueAdjuster)
                         + getIncrement(s.currentValueAdjuster))
    ELSE IF s.cursorPosition > 0
         THEN [s EXCEPT !.cursorPosition = @ - 1]
         ELSE IF getCurrentMenu(s)
              THEN [s EXCEPT !.cursorPosition = itemCount(s) - 1]
              ELSE s

\* moveDown without the wrap to the top.
moveDownNoWrap(s) ==
    IF s.isValueAdjustMode /\ s.currentValueAdjuster # nullptr
    THEN s
    ELSE IF getCurrentMenu(s)
         THEN [s EXCEPT !.cursorPosition = @ + 1]
         ELSE s

\* moveDown that also moves the cursor while it edits.
moveDownAlsoNavigates(s) ==
    LET t == IF s.isValueAdjustMode /\ s.currentValueAdjuster # nullptr
             THEN IF getType(s.currentValueAdjuster) = ADJUSTER_TYPE_BOOL
                  THEN setTempValue(s, FALSE)
                  ELSE setValue(s, s.currentValueAdjuster,
                                getValue(s, s.currentValueAdjuster)
                                  - getIncrement(s.currentValueAdjuster))
             ELSE s
    IN IF getCurrentMenu(t)
       THEN IF t.cursorPosition < itemCount(t) - 1
            THEN [t EXCEPT !.cursorPosition = @ + 1]
            ELSE [t EXCEPT !.cursorPosition = 0]
       ELSE t

moveDown(s) ==
    IF s.isValueAdjustMode /\ s.currentValueAdjuster # nullptr
    THEN IF getType(s.currentValueAdjuster) = ADJUSTER_TYPE_BOOL
         THEN setTempValue(s, FALSE)
         ELSE setValue(s, s.currentValueAdjuster,
                       getValue(s, s.currentValueAdjuster)
                         - getIncrement(s.currentValueAdjuster))
    ELSE IF getCurrentMenu(s)
         THEN IF s.cursorPosition < itemCount(s) - 1
              THEN [s EXCEPT !.cursorPosition = @ + 1]
              ELSE [s EXCEPT !.cursorPosition = 0]
         ELSE s

\* goBack that also leaves edit mode.
goBackExitsEdit(s) ==
    IF s.currentMenuIndex > 0
    THEN [s EXCEPT !.currentMenuIndex = 0, !.cursorPosition = 0,
                   !.isValueAdjustMode = FALSE, !.currentValueAdjuster = nullptr]
    ELSE [s EXCEPT !.isValueAdjustMode = FALSE, !.currentValueAdjuster = nullptr]

\* goBack that resets the cursor whatever menu is active.
goBackAlways(s) == [s EXCEPT !.currentMenuIndex = 0, !.cursorPosition = 0]

goBack(s) ==
    IF s.currentMenuIndex > 0
    THEN [s EXCEPT !.currentMenuIndex = 0, !.cursorPosition = 0]
    ELSE s

\* setCurrentMenu that takes an id it cannot find for an index.
setCurrentMenuUnchecked(s, menuId) ==
    LET menuIndex == findMenuById(menuId)
    IN IF menuIndex >= 0
       THEN [s EXCEPT !.currentMenuIndex = menuIndex, !.cursorPosition = 0]
       ELSE [s EXCEPT !.currentMenuIndex = menuId, !.cursorPosition = 0]

setCurrentMenu(s, menuId) ==
    LET menuIndex == findMenuById(menuId)
    IN IF menuIndex >= 0
       THEN [s EXCEPT !.currentMenuIndex = menuIndex, !.cursorPosition = 0]
       ELSE s

\* enterValueAdjustMode that sets the mode flag but not the target.
enterWithoutTarget(s, adjuster) == [s EXCEPT !.isValueAdjustMode = TRUE]

\* enterValueAdjustMode that leaves lastEncoderValue as it is.
enterNoResync(s, adjuster) ==
    LET s1 == [s EXCEPT !.isValueAdjustMode = TRUE,
                        !.currentValueAdjuster = adjuster,
                        !.sessionDir = "none",
                        !.sessionEntry = IF getType(adjuster) = ADJUSTER_TYPE_BOOL
                                         THEN s.value[adjuster] ELSE FALSE]
    IN IF getType(adjuster) = ADJUSTER_TYPE_BOOL
       THEN setTempValue(s1, s1.value[adjuster])
       ELSE s1

enterValueAdjustMode(s, adjuster) ==
    LET s1 == [s EXCEPT !.isValueAdjustMode = TRUE,
                        !.currentValueAdjuster = adjuster,
                        !.sessionDir = "none",
                        !.sessionEntry = IF getType(adjuster) = ADJUSTER_TYPE_BOOL
                                         THEN s.value[adjuster] ELSE FALSE]
        s2 == IF getType(adjuster) = ADJUSTER_TYPE_BOOL
              THEN setTempValue(s1, s1.value[adjuster])
              ELSE s1
    IN IF inputMode = INPUT_ENCODER
       THEN [s2 EXCEPT !.lastEncoderValue = s.encoderCount]
       ELSE s2

\* exitValueAdjustMode that clears the flag but keeps the target.
exitKeepsTarget(s) ==
    [s EXCEPT !.isValueAdjustMode = FALSE,
              !.sessionDir = "none", !.sessionEntry = FALSE]

exitValueAdjustMode(s) ==
    [s EXCEPT !.isValueAdjustMode = FALSE, !.currentValueAdjuster = nullptr,
              !.sessionDir = "none", !.sessionEntry = FALSE]

\* What a callback (a function of the sketch) may do when executed: nothing
\* to the menu system, or a call of one of its navigation methods.
TriggerActs ==
    {[op |-> o, id |-> 0] : o \in {"noop", "goBack", "moveUp", "moveDown"}}
      \cup {[op |-> "setCurrentMenu", id |-> k] : k \in 0 .. MaxMenus - 1}

\* MenuCallback::execute for a callback that behaves as act.
execute(s, act) ==
    LET s1 == [s EXCEPT !.fired = @ + 1]
    IN CASE act.op = "goBack" -> goBack(s1)
         [] act.op = "moveUp" -> moveUp(s1)
         [] act.op = "moveDown" -> moveDown(s1)
         [] act.op = "setCurrentMenu" -> setCurrentMenu(s1, act.id)
         [] OTHER -> s1

\* What &items[cursorPosition] can hold when cursorPosition < 0: the read is
\* outside the item array, so any field values.
GarbageItems ==
    {MenuItem(n, c, a) : n \in {-1, 1}, c \in BOOLEAN,
                         a \in Adjusters \cup {nullptr}}

\* The item select() reads: garbage stands for the out-of-bounds read.
selectedItem(s, garbage) ==
    IF s.cursorPosition >= 0
    THEN CurrentMenu(s).items[s.cursorPosition + 1]
    ELSE garbage

\* select() that keeps the cursor where it was when it navigates.
selectKeepCursor(s, act, garbage) ==
    IF getCurrentMenu(s) /\ s.cursorPosition < itemCount(s)
    THEN LET item == selectedItem(s, garbage)
         IN IF item.valueAdjuster # nullptr
            THEN enterValueAdjustMode(s, item.valueAdjuster)
            ELSE LET s1 == IF item.callback THEN execute(s, act) ELSE s
                     nextMenuIndex == findMenuById(item.nextMenuId)
                 IN IF item.nextMenuId >= 0 /\ nextMenuIndex >= 0
                    THEN [s1 EXCEPT !.currentMenuIndex = nextMenuIndex]
                    ELSE s1
    ELSE s

\* select() that navigates before it runs the callback.
selectNavigateFirst(s, act, garbage) ==
    IF getCurrentMenu(s) /\ s.cursorPosition < itemCount(s)
    THEN LET item == selectedItem(s, garbage)
         IN IF item.valueAdjuster # nullptr
            THEN enterValueAdjustMode(s, item.valueAdjuster)
            ELSE LET nextMenuIndex == findMenuById(item.nextMenuId)
                     s1 == IF item.nextMenuId >= 0 /\ nextMenuIndex >= 0
                           THEN [s EXCEPT !.currentMenuIndex = nextMenuIndex,
                                          !.cursorPosition = 0]
                           ELSE s
                 IN IF item.callback THEN execute(s1, act) ELSE s1
    ELSE s

\* select() that goes to the first menu when the next-menu id is unknown.
selectDanglingHome(s, act, garbage) ==
    IF getCurrentMenu(s) /\ s.cursorPosition < itemCount(s)
    THEN LET item == selectedItem(s, garbage)
         IN IF item.valueAdjuster # nullptr
            THEN enterValueAdjustMode(s, item.valueAdjuster)
            ELSE LET s1 == IF item.callback THEN execute(s, act) ELSE s
                     nextMenuIndex == findMenuById(item.nextMenuId)
                 IN IF item.nextMenuId >= 0
                    THEN [s1 EXCEPT !.currentMenuIndex =
                                      IF nextMenuIndex >= 0 THEN nextMenuIndex
                                      ELSE 0,
                                    !.cursorPosition = 0]
                    ELSE s1
    ELSE s

\* select(): act is the behaviour of the item's callback, if it has one.
select(s, act, garbage) ==
    IF getCurrentMenu(s) /\ s.cursorPosition < itemCount(s)
    THEN LET item == selectedItem(s, garbage)
         IN IF item.valueAdjuster # nullptr
            THEN enterValueAdjustMode(s, item.valueAdjuster)
            ELSE LET s1 == IF item.callback THEN execute(s, act) ELSE s
                     nextMenuIndex == findMenuById(item.nextMenuId)
                 IN IF item.nextMenuId >= 0 /\ nextMenuIndex >= 0
                    THEN [s1 EXCEPT !.currentMenuIndex = nextMenuIndex,
                                    !.cursorPosition = 0]
                    ELSE s1
    ELSE s


\* ------------------------------------------------------- the system state
\* The members of the ESP32_MenuSystem object (and of the adjusters and the
\* variables they are bound to) as one record, so that methods compose.
Sys ==
    [currentMenuIndex |-> currentMenuIndex, cursorPosition |-> cursorPosition,
     isValueAdjustMode |-> isValueAdjustMode,
     currentValueAdjuster |-> currentValueAdjuster,
     value |-> value, tempValue |-> tempValue,
     buttonUpState |-> buttonUpState, buttonDownState |-> buttonDownState,
     buttonOkState |-> buttonOkState,
     lastButtonUpState |-> lastButtonUpState,
     lastButtonDownState |-> lastButtonDownState,
     lastButtonOkState |-> lastButtonOkState,
     encoderButtonState |-> encoderButtonState,
     lastEncoderButtonState |-> lastEncoderButtonState,
     lastDebounceTime |-> lastDebounceTime,
     encoderCount |-> encoderCount, lastEncoderValue |-> lastEncoderValue,
     encoderAccumulator |-> encoderAccumulator, errorCode |-> errorCode,
     errorMessage |-> errorMessage,
     fired |-> 0, events |-> <<>>,
     sessionDir |-> sessionDir, sessionEntry |-> sessionEntry,
     undefined |-> 0]

\* The state after a method returned s.
Commit(s) ==
    /\ currentMenuIndex' = s.currentMenuIndex
    /\ cursorPosition' = s.cursorPosition
    /\ isValueAdjustMode' = s.isValueAdjustMode
    /\ currentValueAdjuster' = s.currentValueAdjuster
    /\ value' = s.value
    /\ tempValue' = s.tempValue
    /\ buttonUpState' = s.buttonUpState
    /\ buttonDownState' = s.buttonDownState
    /\ buttonOkState' = s.buttonOkState
    /\ lastButtonUpState' = s.lastButtonUpState
    /\ lastButtonDownState' = s.lastButtonDownState
    /\ lastButtonOkState' = s.lastButtonOkState
    /\ encoderButtonState' = s.encoderButtonState
    /\ lastEncoderButtonState' = s.lastEncoderButtonState
    /\ lastDebounceTime' = s.lastDebounceTime
    /\ encoderCount' = s.encoderCount
    /\ lastEncoderValue' = s.lastEncoderValue
    /\ encoderAccumulator' = s.encoderAccumulator
    /\ errorCode' = s.errorCode
    /\ errorMessage' = s.errorMessage
    /\ fired' = s.fired
    /\ events' = s.events
    /\ sessionDir' = s.sessionDir
    /\ sessionEntry' = s.sessionEntry

\* The constructor (button mode or encoder mode): every member but menus[].
Constructed(mode, sensitivity) ==
    /\ currentMenuIndex = 0
    /\ cursorPosition = 0
    /\ isValueAdjustMode = FALSE
    /\ currentValueAdjuster = nullptr
    /\ inputMode = mode
    /\ buttonUpState = FALSE /\ buttonDownState = FALSE /\ buttonOkState = FALSE
    /\ lastButtonUpState = FALSE /\ lastButtonDownState = FALSE
    /\ lastButtonOkState = FALSE
    /\ encoderButtonState = FALSE /\ lastEncoderButtonState = FALSE
    /\ lastDebounceTime = 0
    /\ now = 0
    /\ encoderCount = 0
    /\ lastEncoderValue = 0
    /\ encoderAccumulator = 0
    /\ encoderSensitivity = sensitivity
    /\ errorCode = 0
    /\ errorMessage = ""
    /\ fired = 0
    /\ events = <<>>
    /\ sessionDir = "none"
    /\ sessionEntry = FALSE
    /\ lastOp = "other"
    /\ called = [adj |-> nullptr, arg |-> 0]
    /\ held = [b \in {"up", "down", "ok"} |-> 0]
    /\ emitted = [b \in {"up", "down", "ok"} |-> 0]
    /\ fresh = [b \in {"up", "down", "ok"} |-> FALSE]
    /\ tally = [signs |-> 0, pos |-> 0, neg |-> 0]
    /\ returned = 0
    /\ heap = [created |-> 0, deleted |-> 0]
    /\ screenHeight = 64
    /\ titleHeight = 12
    /\ separatorY = 12
    /\ menuStartY = 22
    /\ lineHeight = 10
    /\ menuItemsVisible = 4
    /\ menuItemPadding = 2
    /\ window = [drawn |-> FALSE, displayStart |-> 0, visibleItems |-> 0]

\* The variables the adjusters are bound to, as the sketch initialises them;
\* the BoolValueAdjuster constructor copies *value into tempValue.
DefaultCfg ==
    [F |-> [increment |-> 1, minValue |-> 0, maxValue |-> 1, wrapAround |-> TRUE],
     I |-> [increment |-> Scale, minValue |-> 0, maxValue |-> Scale,
            wrapAround |-> TRUE]]

Bound ==
    /\ adjCfg = DefaultCfg
    /\ value = [F |-> FloatCfg.minValue, I |-> IntCfg.minValue, B |-> FALSE]
    /\ tempValue = value["B"]

\* A sketch in button mode that has added no menu yet.
Init == Constructed(INPUT_BUTTONS, 1) /\ Bound /\ menus = <<>>

\* ----------------------------------------------------- menu construction
\* addMenu that numbers the menus from 1.
addMenuIdFromOne(ms) ==
    IF Len(ms) < MAX_MENU_DEPTH THEN Append(ms, Menu(Len(ms) + 1)) ELSE ms

addMenu(ms) ==
    IF Len(ms) < MAX_MENU_DEPTH THEN Append(ms, Menu(Len(ms))) ELSE ms

\* What addMenu returns: the index of the new menu, or -1.
addMenuResult(ms) == IF Len(ms) < MAX_MENU_DEPTH THEN Len(ms) ELSE -1

addMenuItem(ms, menuIndex, nextMenuId, callback) ==
    IF menuIndex >= 0 /\ menuIndex < Len(ms)
    THEN [ms EXCEPT ![menuIndex + 1] = addItem(@, nextMenuId, callback, nullptr)]
    ELSE ms

addValueMenuItem(ms, menuIndex, adjuster) ==
    IF menuIndex >= 0 /\ menuIndex < Len(ms)
    THEN [ms EXCEPT ![menuIndex + 1] = addItem(@, -1, FALSE, adjuster)]
    ELSE ms

\* The nextMenuId arguments of the sketch: no link, or a link to the menu
\* added second (a dangling link for as long as that menu is not added).
NextMenuIds == {-1, 1}

\* What an operation that only builds menus leaves alone.
NavUnchanged ==
    /\ fired' = 0
    /\ events' = <<>>
    /\ UNCHANGED <<currentMenuIndex, cursorPosition, isValueAdjustMode,
                   currentValueAdjuster, value, tempValue, adjCfg, inputMode,
                   buttonUpState, buttonDownState, buttonOkState,
                   lastButtonUpState, lastButtonDownState, lastButtonOkState,
                   encoderButtonState, lastEncoderButtonState,
                   lastDebounceTime, now, encoderCount, lastEncoderValue,
                   encoderAccumulator, encoderSensitivity, errorCode,
                   errorMessage, sessionDir, sessionEntry, called, held,
                   emitted, fresh, tally, returned, heap, layoutVars, window>>

AddMenu ==
    /\ menuCount < MaxMenus
    /\ menus' = addMenu(menus)
    /\ lastOp' = "other"
    /\ NavUnchanged

AddMenuItem ==
    /\ TotalItems(menus) < MaxTotalItems
    /\ \E menuIndex \in 0 .. MaxMenus - 1, nextMenuId \in NextMenuIds,
          callback \in BOOLEAN :
            menus' = addMenuItem(menus, menuIndex, nextMenuId, callback)
    /\ lastOp' = "other"
    /\ NavUnchanged

AddValueMenuItem ==
    /\ TotalItems(menus) < MaxTotalItems
    /\ \E menuIndex \in 0 .. MaxMenus - 1, adjuster \in Adjusters :
            menus' = addValueMenuItem(menus, menuIndex, adjuster)
    /\ lastOp' = "other"
    /\ NavUnchanged

\* TRUE when select() would execute a callback: only then does the
\* callback's behaviour matter.
readsCallback(s, garbage) ==
    /\ getCurrentMenu(s) /\ s.cursorPosition < itemCount(s)
    /\ selectedItem(s, garbage).valueAdjuster = nullptr
    /\ selectedItem(s, garbage).callback

\* ------------------------------------------- navigation calls of the sketch
Frame == UNCHANGED <<menus, adjCfg, inputMode, now, encoderSensitivity,
                     called, held, emitted, fresh, tally, returned, heap,
                     layoutVars, window>>

MoveUp == Commit(moveUp(Sys)) /\ lastOp' = "other" /\ Frame

MoveDown == Commit(moveDown(Sys)) /\ lastOp' = "other" /\ Frame

Select ==
    /\ \E garbage \in IF getCurrentMenu(Sys) /\ cursorPosition < 0
                        THEN GarbageItems ELSE {MenuItem(-1, FALSE, nullptr)} :
         \E act \in IF readsCallback(Sys, garbage) THEN TriggerActs
                    ELSE {[op |-> "noop", id |-> 0]} :
            Commit(select(Sys, act, garbage))
    /\ lastOp' = "select"
    /\ Frame

GoBack == Commit(goBack(Sys)) /\ lastOp' = "goBack" /\ Frame

SetCurrentMenu ==
    /\ \E menuId \in 0 .. MaxMenus : Commit(setCurrentMenu(Sys, menuId))
    /\ lastOp' = "other"
    /\ Frame

Next ==
    \/ AddMenu
    \/ AddMenuItem
    \/ AddValueMenuItem
    \/ MoveUp
    \/ MoveDown
    \/ Select
    \/ GoBack
    \/ SetCurrentMenu

Spec == Init /\ [][Next]_vars

\* ------------------------------------------------------------ update cycle
\* Button polarity: the level that counts as pressed for a trigger type.
TRIGGER_LOW == "TRIGGER_LOW"
TRIGGER_HIGH == "TRIGGER_HIGH"
LOW == "LOW"
HIGH == "HIGH"
currentState(triggerType, level) ==
    IF triggerType = TRIGGER_LOW THEN level = LOW ELSE level = HIGH

\* currentMillis - lastDebounceTime in unsigned arithmetic.
elapsed(currentMillis, last) == (currentMillis - last) % ClockMod

\* History only: the update cycle dispatched event e.
emit(s, e) == [s EXCEPT !.events = Append(@, e)]

clearError(s) == [s EXCEPT !.errorCode = 0, !.errorMessage = ""]

\* The body run on a press of OK that leaves edit mode only for a Boolean
\* target.
okPressedExitsBoolOnly(s, act, garbage) ==
    IF s.errorCode > 0
    THEN clearError(s)
    ELSE IF s.isValueAdjustMode /\ s.currentValueAdjuster # nullptr
         THEN IF getType(s.currentValueAdjuster) = ADJUSTER_TYPE_BOOL
              THEN exitValueAdjustMode(applyTempValue(s, s.currentValueAdjuster))
              ELSE s
         ELSE select(s, act, garbage)

\* The body run on a press of OK that clears a latched error and then
\* handles the press as if there had been none.
okPressedThroughError(s, act, garbage) ==
    LET s1 == IF s.errorCode > 0 THEN clearError(s) ELSE s
    IN IF s1.isValueAdjustMode /\ s1.currentValueAdjuster # nullptr
       THEN exitValueAdjustMode(
              IF getType(s1.currentValueAdjuster) = ADJUSTER_TYPE_BOOL
              THEN applyTempValue(s1, s1.currentValueAdjuster)
              ELSE s1)
       ELSE select(s1, act, garbage)

\* The body run on a debounced press of OK (checkButtons) or of the encoder
\* button (handleButtonPress).
okPressed(s, act, garbage) ==
    IF s.errorCode > 0
    THEN clearError(s)
    ELSE IF s.isValueAdjustMode /\ s.currentValueAdjuster # nullptr
         THEN exitValueAdjustMode(
                IF getType(s.currentValueAdjuster) = ADJUSTER_TYPE_BOOL
                THEN applyTempValue(s, s.currentValueAdjuster)
                ELSE s)
         ELSE select(s, act, garbage)

\* checkButtons, the UP button, without the test of the elapsed time.
checkUpNoDebounce(s, currentUpState, currentMillis) ==
    LET s1 == IF currentUpState # s.lastButtonUpState
              THEN [s EXCEPT !.lastDebounceTime = currentMillis] ELSE s
    IN IF currentUpState # s1.buttonUpState
       THEN LET s2 == [s1 EXCEPT !.buttonUpState = currentUpState]
            IN IF s2.buttonUpState
               THEN IF s2.isValueAdjustMode /\ s2.currentValueAdjuster # nullptr
                    THEN noteDir(setValue(emit(s2, "Up"), s2.currentValueAdjuster,
                                   getValue(s2, s2.currentValueAdjuster)
                                     + getIncrement(s2.currentValueAdjuster)), "Up")
                    ELSE moveUp(emit(s2, "Up"))
               ELSE s2
       ELSE s1

\* checkButtons, the UP button: lines 420-439.
checkUp(s, currentUpState, currentMillis) ==
    LET s1 == IF currentUpState # s.lastButtonUpState
              THEN [s EXCEPT !.lastDebounceTime = currentMillis] ELSE s
    IN IF elapsed(currentMillis, s1.lastDebounceTime) > debounceDelay
          /\ currentUpState # s1.buttonUpState
       THEN LET s2 == [s1 EXCEPT !.buttonUpState = currentUpState]
            IN IF s2.buttonUpState
               THEN IF s2.isValueAdjustMode /\ s2.currentValueAdjuster # nullptr
                    THEN noteDir(setValue(emit(s2, "Up"), s2.currentValueAdjuster,
                                   getValue(s2, s2.currentValueAdjuster)
                                     + getIncrement(s2.currentValueAdjuster)), "Up")
                    ELSE moveUp(emit(s2, "Up"))
               ELSE s2
       ELSE s1

\* checkButtons, the DOWN button: lines 441-460.
checkDown(s, currentDownState, currentMillis) ==
    LET s1 == IF currentDownState # s.lastButtonDownState
              THEN [s EXCEPT !.lastDebounceTime = currentMillis] ELSE s
    IN IF elapsed(currentMillis, s1.lastDebounceTime) > debounceDelay
          /\ currentDownState # s1.buttonDownState
       THEN LET s2 == [s1 EXCEPT !.buttonDownState = currentDownState]
            IN IF s2.buttonDownState
               THEN IF s2.isValueAdjustMode /\ s2.currentValueAdjuster # nullptr
                    THEN noteDir(setValue(emit(s2, "Down"), s2.currentValueAdjuster,
                                   getValue(s2, s2.currentValueAdjuster)
                                     - getIncrement(s2.currentValueAdjuster)), "Down")
                    ELSE moveDown(emit(s2, "Down"))
               ELSE s2
       ELSE s1

\* checkButtons, the OK button: lines 462-486.
checkOk(s, currentOkState, currentMillis, act, garbage) ==
    LET s1 == IF currentOkState # s.lastButtonOkState
              THEN [s EXCEPT !.lastDebounceTime = currentMillis] ELSE s
    IN IF elapsed(currentMillis, s1.lastDebounceTime) > debounceDelay
          /\ currentOkState # s1.buttonOkState
       THEN LET s2 == [s1 EXCEPT !.buttonOkState = currentOkState]
            IN IF s2.buttonOkState
               THEN okPressed(emit(s2, "Confirm"), act, garbage)
               ELSE s2
       ELSE s1

\* checkButtons: in is the three pin levels read, currentMillis the clock.
checkButtons(s, in, currentMillis, act, garbage) ==
    IF inputMode # INPUT_BUTTONS THEN s
    ELSE LET currentUpState == currentState(TRIGGER_LOW, in.up)
             currentDownState == currentState(TRIGGER_LOW, in.down)
             currentOkState == currentState(TRIGGER_LOW, in.ok)
             s1 == checkUp(s, currentUpState, currentMillis)
             s2 == checkDown(s1, currentDownState, currentMillis)
             s3 == checkOk(s2, currentOkState, currentMillis, act, garbage)
         IN [s3 EXCEPT !.lastButtonUpState = currentUpState,
                       !.lastButtonDownState = currentDownState,
                       !.lastButtonOkState = currentOkState]

\* A remainder that takes nothing off the accumulator.
CRemKeepsAll(a, b) == a

\* The C++ remainder a % b for b # 0: truncated towards zero, so it has the
\* sign of a and the size of |a| % |b|.
CRem(a, b) ==
    LET m == IF b < 0 THEN -b ELSE b
    IN IF a >= 0 THEN a % m ELSE -((-a) % m)
\* abs that returns its argument.
absSigned(a) == a

abs(a) == IF a < 0 THEN -a ELSE a

\* handleEncoderMovement that adds the whole difference to the accumulator.
handleEncoderMovementByDelta(s) ==
    IF inputMode # INPUT_ENCODER THEN s
    ELSE LET currentEncoderValue == s.encoderCount
         IN IF currentEncoderValue # s.lastEncoderValue
            THEN LET encoderDir ==
                       IF currentEncoderValue > s.lastEncoderValue THEN 1 ELSE -1
                     s1 == [s EXCEPT !.encoderAccumulator =
                                        @ + (currentEncoderValue - s.lastEncoderValue)]
                     movementDir == IF s1.encoderAccumulator > 0 THEN 1 ELSE -1
                     ev == IF movementDir > 0 THEN "Down" ELSE "Up"
                     dir == IF movementDir > 0 THEN "Up" ELSE "Down"
                     s2 ==
                       IF abs(s1.encoderAccumulator) >= encoderSensitivity
                       THEN LET s3 ==
                                IF s1.isValueAdjustMode
                                   /\ s1.currentValueAdjuster # nullptr
                                THEN IF getType(s1.currentValueAdjuster)
                                          = ADJUSTER_TYPE_BOOL
                                     THEN noteDir(setTempValue(emit(s1, dir),
                                                    movementDir > 0), dir)
                                     ELSE setValue(emit(s1, dir),
                                            s1.currentValueAdjuster,
                                            getValue(s1, s1.currentValueAdjuster)
                                              + getIncrement(s1.currentValueAdjuster)
                                                  * movementDir)
                                ELSE IF movementDir > 0
                                     THEN moveDown(emit(s1, ev))
                                     ELSE moveUp(emit(s1, ev))
                            IN [s3 EXCEPT !.encoderAccumulator =
                                            IF encoderSensitivity = 0
                                            THEN s.undefined
                                            ELSE CRem(@, encoderSensitivity)]
                       ELSE s1
                 IN [s2 EXCEPT !.lastEncoderValue = currentEncoderValue]
            ELSE s

\* handleEncoderMovement that navigates against the turn: up on a positive
\* accumulator, down on a negative one.
handleEncoderMovementReversed(s) ==
    IF inputMode # INPUT_ENCODER THEN s
    ELSE LET currentEncoderValue == s.encoderCount
         IN IF currentEncoderValue # s.lastEncoderValue
            THEN LET encoderDir ==
                       IF currentEncoderValue > s.lastEncoderValue THEN 1 ELSE -1
                     s1 == [s EXCEPT !.encoderAccumulator = @ + encoderDir]
                     movementDir == IF s1.encoderAccumulator > 0 THEN 1 ELSE -1
                     ev == IF movementDir > 0 THEN "Down" ELSE "Up"
                     dir == IF movementDir > 0 THEN "Up" ELSE "Down"
                     s2 ==
                       IF abs(s1.encoderAccumulator) >= encoderSensitivity
                       THEN LET s3 ==
                                IF s1.isValueAdjustMode
                                   /\ s1.currentValueAdjuster # nullptr
                                THEN IF getType(s1.currentValueAdjuster)
                                          = ADJUSTER_TYPE_BOOL
                                     THEN noteDir(setTempValue(emit(s1, dir),
                                                    movementDir > 0), dir)
                                     ELSE setValue(emit(s1, dir),
                                            s1.currentValueAdjuster,
                                            getValue(s1, s1.currentValueAdjuster)
                                              + getIncrement(s1.currentValueAdjuster)
                                                  * movementDir)
                                ELSE IF movementDir > 0
                                     THEN moveUp(emit(s1, ev))
                                     ELSE moveDown(emit(s1, ev))
                            IN [s3 EXCEPT !.encoderAccumulator =
                                            IF encoderSensitivity = 0
                                            THEN s.undefined
                                            ELSE CRem(@, encoderSensitivity)]
                       ELSE s1
                 IN [s2 EXCEPT !.lastEncoderValue = currentEncoderValue]
            ELSE s

\* handleEncoderMovement: s.encoderCount is the count the encoder reports,
\* and s.undefined what accumulator % 0 leaves in the accumulator when the
\* sensitivity is 0 and the division does not trap.
handleEncoderMovement(s) ==
    IF inputMode # INPUT_ENCODER THEN s
    ELSE LET currentEncoderValue == s.encoderCount
         IN IF currentEncoderValue # s.lastEncoderValue
            THEN LET encoderDir ==
                       IF currentEncoderValue > s.lastEncoderValue THEN 1 ELSE -1
                     s1 == [s EXCEPT !.encoderAccumulator = @ + encoderDir]
                     movementDir == IF s1.encoderAccumulator > 0 THEN 1 ELSE -1
                     ev == IF movementDir > 0 THEN "Down" ELSE "Up"
                     dir == IF movementDir > 0 THEN "Up" ELSE "Down"
                     s2 ==
                       IF abs(s1.encoderAccumulator) >= encoderSensitivity
                       THEN LET s3 ==
                                IF s1.isValueAdjustMode
                                   /\ s1.currentValueAdjuster # nullptr
                                THEN IF getType(s1.currentValueAdjuster)
                                          = ADJUSTER_TYPE_BOOL
                                     THEN noteDir(setTempValue(emit(s1, dir),
                                                    movementDir > 0), dir)
                                     ELSE setValue(emit(s1, dir),
                                            s1.currentValueAdjuster,
                                            getValue(s1, s1.currentValueAdjuster)
                                              + getIncrement(s1.currentValueAdjuster)
                                                  * movementDir)
                                ELSE IF movementDir > 0
                                     THEN moveDown(emit(s1, ev))
                                     ELSE moveUp(emit(s1, ev))
                            IN [s3 EXCEPT !.encoderAccumulator =
                                            IF encoderSensitivity = 0
                                            THEN s.undefined
                                            ELSE CRem(@, encoderSensitivity)]
                       ELSE s1
                 IN [s2 EXCEPT !.lastEncoderValue = currentEncoderValue]
            ELSE s

\* handleButtonPress: level is the encoder button's pin level.
handleButtonPress(s, level, currentMillis, act, garbage) ==
    IF inputMode # INPUT_ENCODER THEN s
    ELSE LET currentButtonState == currentState(TRIGGER_LOW, level)
             s1 == IF currentButtonState # s.lastEncoderButtonState
                   THEN [s EXCEPT !.lastDebounceTime = currentMillis] ELSE s
             s2 == IF elapsed(currentMillis, s1.lastDebounceTime) > debounceDelay
                      /\ currentButtonState # s1.encoderButtonState
                   THEN LET s3 == [s1 EXCEPT !.encoderButtonState =
                                                 currentButtonState]
                        IN IF s3.encoderButtonState
                           THEN okPressed(emit(s3, "Confirm"), act, garbage)
                           ELSE s3
                   ELSE s1
         IN [s2 EXCEPT !.lastEncoderButtonState = currentButtonState]

\* update(): the input handlers of the mode; displayMenu changes no state.
update(s, in, currentMillis, act, garbage) ==
    IF inputMode = INPUT_BUTTONS
    THEN checkButtons(s, in, currentMillis, act, garbage)
    ELSE handleButtonPress(handleEncoderMovement(s), in.ok, currentMillis,
                           act, garbage)

Levels == {LOW, HIGH}

\* The pin levels one update cycle reads (the encoder button is read as ok).
ButtonInputs == [up : Levels, down : Levels, ok : Levels]
EncoderInputs == [up : {HIGH}, down : {HIGH}, ok : Levels]

\* The buttons, the event each dispatches, and the history kept of them.
Buttons == {"up", "down", "ok"}
eventOf(b) == IF b = "up" THEN "Up" ELSE IF b = "down" THEN "Down" ELSE "Confirm"
\* The level sampled by the previous cycle, and the debounced state.
lastState(b) ==
    IF b = "up" THEN lastButtonUpState
    ELSE IF b = "down" THEN lastButtonDownState
    ELSE IF inputMode = INPUT_BUTTONS THEN lastButtonOkState
    ELSE lastEncoderButtonState
buttonState(b) ==
    IF b = "up" THEN buttonUpState
    ELSE IF b = "down" THEN buttonDownState
    ELSE IF inputMode = INPUT_BUTTONS THEN buttonOkState
    ELSE encoderButtonState
Count(evs, e) == Cardinality({i \in 1 .. Len(evs) : evs[i] = e})
\* History only: the cycle sampled the levels in after dt more milliseconds
\* and dispatched evs.
Sampled(in, dt, evs) ==
    LET asserted(b) == (inputMode = INPUT_BUTTONS \/ b = "ok")
                         /\ currentState(TRIGGER_LOW, in[b])
        n(b) == (IF lastState(b) THEN emitted[b] ELSE 0) + Count(evs, eventOf(b))
    IN /\ held' = [b \in Buttons |->
                     IF asserted(b) /\ lastState(b)
                     THEN (IF held[b] + dt > debounceDelay
                           THEN debounceDelay + 1 ELSE held[b] + dt)
                     ELSE 0]
       /\ emitted' = [b \in Buttons |->
                        IF asserted(b) THEN (IF n(b) > 2 THEN 2 ELSE n(b)) ELSE 0]
       /\ fresh' = [b \in Buttons |->
                      IF ~asserted(b) THEN FALSE
                      ELSE IF lastState(b) THEN fresh[b]
                      ELSE ~buttonState(b)]

\* What encoderAccumulator % encoderSensitivity can leave in the accumulator
\* when the sensitivity is 0: the division is undefined, so any int (of the
\* encoder range of the model) when it does not trap.
UndefinedInts == -EncRange .. EncRange

\* One loop() iteration: dt milliseconds pass, the pins have the levels in,
\* the encoder reports count, and update() runs.
Cycle(dt, in, count) ==
    \E undefined \in IF encoderSensitivity = 0 THEN UndefinedInts ELSE {0} :
      LET s0 == [Sys EXCEPT !.encoderCount = count, !.undefined = undefined]
          currentMillis == (now + dt) % ClockMod
      IN \E garbage \in IF getCurrentMenu(s0) /\ cursorPosition < 0
                         THEN GarbageItems ELSE {MenuItem(-1, FALSE, nullptr)} :
         \E act \in IF readsCallback(s0, garbage) THEN TriggerActs
                    ELSE {[op |-> "noop", id |-> 0]} :
           /\ Commit(update(s0, in, currentMillis, act, garbage))
           /\ now' = currentMillis
           /\ lastOp' = "update"
           /\ UNCHANGED <<menus, adjCfg, inputMode, encoderSensitivity, called,
                          returned, heap, layoutVars, window>>

\* One loop() iteration, the pins and the encoder count taking whatever
\* values the hardware has.
Update ==
    \E dt \in Ticks,
       in \in IF inputMode = INPUT_BUTTONS THEN ButtonInputs ELSE EncoderInputs,
       count \in IF inputMode = INPUT_BUTTONS THEN {encoderCount}
                 ELSE -EncRange .. EncRange :
         /\ Cycle(dt, in, count)
         /\ UNCHANGED <<held, emitted, fresh, tally>>

\* One loop() iteration of a sketch whose loop always takes the longer time.
LongTick == CHOOSE dt \in Ticks : \A other \in Ticks : other <= dt
UpdateSlow ==
    \E in \in IF inputMode = INPUT_BUTTONS THEN ButtonInputs ELSE EncoderInputs,
       count \in IF inputMode = INPUT_BUTTONS THEN {encoderCount}
                 ELSE -EncRange .. EncRange :
         /\ Cycle(LongTick, in, count)
         /\ UNCHANGED <<held, emitted, fresh, tally>>

\* One loop() iteration, with the history of the buttons kept.
UpdateSampled ==
    \E dt \in Ticks,
       in \in IF inputMode = INPUT_BUTTONS THEN ButtonInputs ELSE EncoderInputs,
       count \in IF inputMode = INPUT_BUTTONS THEN {encoderCount}
                 ELSE -EncRange .. EncRange :
         /\ Cycle(dt, in, count)
         /\ Sampled(in, dt, events')
         /\ UNCHANGED tally

\* A sketch in button mode whose setup() built one menu with the Boolean and
\* the Float value item.
BuiltMenus == addValueMenuItem(addValueMenuItem(addMenu(<<>>), 0, "B"), 0, "F")

InitButtons ==
    /\ Constructed(INPUT_BUTTONS, 1)
    /\ menus = BuiltMenus
    /\ adjCfg = DefaultCfg
    /\ \E b \in BOOLEAN :
         /\ value = [F |-> FloatCfg.minValue, I |-> IntCfg.minValue, B |-> b]
         /\ tempValue = b

SpecButtons == InitButtons /\ [][Update]_vars

\* ------------------------------------------------------------ cursor only
\* A sketch in button mode whose setup() added two menus of n0 and n1 items
\* that have neither link, callback nor adjuster.
RECURSIVE addPlainItems(_, _, _)
addPlainItems(ms, menuIndex, n) ==
    IF n = 0 THEN ms
    ELSE addPlainItems(addMenuItem(ms, menuIndex, -1, FALSE), menuIndex, n - 1)

PlainMenus(n0, n1) ==
    addPlainItems(addPlainItems(addMenu(addMenu(<<>>)), 0, n0), 1, n1)

InitCursor ==
    /\ Constructed(INPUT_BUTTONS, 1)
    /\ Bound
    /\ \E n0 \in 0 .. MaxN, n1 \in 0 .. MaxN : menus = PlainMenus(n0, n1)

AddPlainItem ==
    /\ \E menuIndex \in 0 .. menuCount - 1 :
         /\ Len(menus[menuIndex + 1].items) < MaxN
         /\ menus' = addMenuItem(menus, menuIndex, -1, FALSE)
    /\ lastOp' = "other"
    /\ NavUnchanged

NextCursor ==
    \/ MoveUp
    \/ MoveDown
    \/ GoBack
    \/ SetCurrentMenu
    \/ AddPlainItem

SpecCursor == InitCursor /\ [][NextCursor]_vars

\* ----------------------------------------------------------------- debounce
\* A sketch in either input mode whose only menu has one item without link,
\* callback or adjuster: the events of its update cycles change nothing but
\* the debounce state.
InitDebounce ==
    /\ \E mode \in {INPUT_BUTTONS, INPUT_ENCODER} : Constructed(mode, 1)
    /\ Bound
    /\ menus = PlainMenus(1, 0)

SpecDebounce == InitDebounce /\ [][UpdateSampled]_vars

\* ------------------------------------------------------------------ encoder
sign(d) == IF d > 0 THEN 1 ELSE IF d < 0 THEN -1 ELSE 0
\* |a|, for the history and the properties of the accumulator.
Mag(a) == IF a >= 0 THEN a ELSE -a

\* The event of a step in the positive direction (movementDir > 0): it adds
\* the increment in edit mode and is moveDown in browsing.
posEvent == IF isValueAdjustMode THEN "Up" ELSE "Down"
negEvent == IF isValueAdjustMode THEN "Down" ELSE "Up"

\* The pin levels of a cycle in which no button is pressed.
Released == [up |-> HIGH, down |-> HIGH, ok |-> HIGH]

\* History only: the cycle read count and dispatched evs.
Tallied(count, evs) ==
    tally' = [signs |-> tally.signs + sign(count - lastEncoderValue),
              pos |-> tally.pos + Count(evs, posEvent),
              neg |-> tally.neg + Count(evs, negEvent)]

\* One loop() iteration in encoder mode with the push button released, the
\* history of the encoder kept.
UpdateTallied ==
    /\ \E count \in -EncRange .. EncRange :
         /\ Cycle(LongTick, Released, count)
         /\ Tallied(count, events')
    /\ tally'.pos <= MaxTally /\ tally'.neg <= MaxTally
    /\ Mag(tally'.signs) <= MaxTally
    /\ UNCHANGED <<held, emitted, fresh>>

\* A sketch in encoder mode, constructed with a sensitivity of 1 .. MaxSens,
\* whose first menu has two items without link, callback or adjuster.
InitEncoder ==
    /\ \E sensitivity \in 1 .. MaxSens : Constructed(INPUT_ENCODER, sensitivity)
    /\ Bound
    /\ menus = PlainMenus(2, 0)

SpecEncoder == InitEncoder /\ [][UpdateTallied]_vars

\* ------------------------------------------------------ any sensitivity
\* The encoder-mode constructor stores the sensitivity it is given: a sketch
\* in encoder mode constructed with a sensitivity of -MaxSens .. MaxSens,
\* whose first menu has three items without link, callback or adjuster.
InitSensitivity ==
    /\ \E sensitivity \in -MaxSens .. MaxSens :
         Constructed(INPUT_ENCODER, sensitivity)
    /\ Bound
    /\ menus = PlainMenus(3, 0)

\* The processor has not trapped.
Running == lastOp # "trapped"

\* One loop() iteration whose accumulator % 0 traps (IntegerDivideByZero):
\* update() does not return, and the sketch runs no further.
DivideByZeroTrap ==
    /\ inputMode = INPUT_ENCODER
    /\ encoderSensitivity = 0
    /\ \E count \in (-EncRange .. EncRange) \ {lastEncoderValue} :
         encoderCount' = count
    /\ lastOp' = "trapped"
    /\ fired' = 0
    /\ events' = <<>>
    /\ UNCHANGED <<menus, currentMenuIndex, cursorPosition, isValueAdjustMode,
                   currentValueAdjuster, value, tempValue, adjCfg, inputMode,
                   buttonUpState, buttonDownState, buttonOkState,
                   lastButtonUpState, lastButtonDownState, lastButtonOkState,
                   encoderButtonState, lastEncoderButtonState,
                   lastDebounceTime, now, lastEncoderValue,
                   encoderAccumulator, encoderSensitivity, errorCode,
                   errorMessage, sessionDir, sessionEntry, called, held,
                   emitted, fresh, tally, returned, heap, layoutVars, window>>

NextSensitivity ==
    \/ (Running /\ UpdateSlow)
    \/ (Running /\ DivideByZeroTrap)

SpecSensitivity == InitSensitivity /\ [][NextSensitivity]_vars

\* ------------------------------------------------------------------ editing
\* A sketch in either input mode with two menus, the first holding the item
\* of one of the three adjusters (the Float one wraps, the Integer one
\* clamps) and the second an item without link, callback or adjuster, and
\* that runs update cycles of the longer time and calls the navigation
\* methods itself.
ValueMenus(adjuster) ==
    addMenuItem(addValueMenuItem(addMenu(addMenu(<<>>)), 0, adjuster),
                1, -1, FALSE)

EditCfg == [DefaultCfg EXCEPT !.I.wrapAround = FALSE]

InitEdit ==
    /\ \E mode \in {INPUT_BUTTONS, INPUT_ENCODER} : Constructed(mode, 1)
    /\ \E adjuster \in AllAdjusters : menus = ValueMenus(adjuster)
    /\ adjCfg = EditCfg
    /\ value = [F |-> FloatCfg.minValue, I |-> IntCfg.minValue, B |-> FALSE]
    /\ tempValue = value["B"]

NextEdit ==
    \/ UpdateSlow
    \/ MoveUp
    \/ MoveDown
    \/ Select
    \/ GoBack
    \/ SetCurrentMenu

SpecEdit == InitEdit /\ [][NextEdit]_vars

\* ------------------------------------------------------- edit-entry resync
\* The knob is turned between two calls of the sketch: the count the
\* encoder reports changes and nothing reads it.
Turn ==
    /\ inputMode = INPUT_ENCODER
    /\ \E count \in (-EncRange .. EncRange) \ {encoderCount} :
         encoderCount' = count
    /\ lastOp' = "other"
    /\ fired' = 0
    /\ events' = <<>>
    /\ UNCHANGED <<menus, currentMenuIndex, cursorPosition, isValueAdjustMode,
                   currentValueAdjuster, value, tempValue, adjCfg, inputMode,
                   buttonUpState, buttonDownState, buttonOkState,
                   lastButtonUpState, lastButtonDownState, lastButtonOkState,
                   encoderButtonState, lastEncoderButtonState,
                   lastDebounceTime, now, lastEncoderValue,
                   encoderAccumulator, encoderSensitivity, errorCode,
                   errorMessage, sessionDir, sessionEntry, called, held,
                   emitted, fresh, tally, returned, heap, layoutVars, window>>

\* A sketch in encoder mode, constructed with a sensitivity of 1 or of
\* MaxSens, whose first menu holds the item of the Float or of the Boolean
\* adjuster, and that runs update cycles and calls select() itself while the
\* knob is turned.
InitResync ==
    /\ \E sensitivity \in {1, MaxSens} : Constructed(INPUT_ENCODER, sensitivity)
    /\ \E adjuster \in Adjusters : menus = ValueMenus(adjuster)
    /\ Bound

NextResync == Turn \/ Select \/ UpdateSlow

SpecResync == InitResync /\ [][NextResync]_vars

\* -------------------------------------------------------------- error latch
\* setError(code, message) for a code > 0 and a non-empty message.
ErrorCodes == {1}
setError(s, code, message) == [s EXCEPT !.errorCode = code, !.errorMessage = message]

SetError ==
    /\ \E code \in ErrorCodes : Commit(setError(Sys, code, "message"))
    /\ lastOp' = "other"
    /\ Frame

\* A sketch in either input mode whose only menu holds the item of the Float
\* or of the Boolean adjuster and an item without link, callback or adjuster,
\* that runs update cycles and latches an error at any time.
ErrorMenus(adjuster) ==
    addMenuItem(addValueMenuItem(addMenu(<<>>), 0, adjuster), 0, -1, FALSE)

InitError ==
    /\ \E mode \in {INPUT_BUTTONS, INPUT_ENCODER} : Constructed(mode, 1)
    /\ \E adjuster \in Adjusters : menus = ErrorMenus(adjuster)
    /\ Bound

NextError == SetError \/ UpdateSlow

SpecError == InitError /\ [][NextError]_vars

\* ------------------------------------------------------ active menu index
\* A sketch that adds menus and items that link, trigger or do nothing, and
\* calls the navigation methods.
NextIndex ==
    \/ AddMenu
    \/ AddMenuItem
    \/ MoveUp
    \/ MoveDown
    \/ Select
    \/ GoBack
    \/ SetCurrentMenu

SpecIndex == Init /\ [][NextIndex]_vars

\* --------------------------------------------------- directional input
\* A sketch in either input mode (in encoder mode with a sensitivity of 1 or
\* of MaxSens) whose only menu holds a value item and two plain items, that
\* runs update cycles and also calls moveUp, moveDown and select itself.
DirectionMenus(adjuster) ==
    addPlainItems(addValueMenuItem(addMenu(<<>>), 0, adjuster), 0, 2)

NextDirection ==
    \/ UpdateSlow
    \/ MoveUp
    \/ MoveDown
    \/ Select

InitDirection ==
    /\ \E mode \in {INPUT_BUTTONS, INPUT_ENCODER} :
         \E sensitivity \in IF mode = INPUT_ENCODER THEN {1, MaxSens} ELSE {1} :
            Constructed(mode, sensitivity)
    /\ \E adjuster \in AllAdjusters : menus = DirectionMenus(adjuster)
    /\ Bound

SpecDirection == InitDirection /\ [][NextDirection]_vars

\* ------------------------------------------------- building up to capacity
\* What the add methods and the destructor leave alone.
BuildFrame ==
    /\ fired' = 0
    /\ events' = <<>>
    /\ UNCHANGED <<currentMenuIndex, cursorPosition, isValueAdjustMode,
                   currentValueAdjuster, value, tempValue, adjCfg, inputMode,
                   buttonUpState, buttonDownState, buttonOkState,
                   lastButtonUpState, lastButtonDownState, lastButtonOkState,
                   encoderButtonState, lastEncoderButtonState,
                   lastDebounceTime, now, encoderCount, lastEncoderValue,
                   encoderAccumulator, encoderSensitivity, errorCode,
                   errorMessage, sessionDir, sessionEntry, called, held,
                   emitted, fresh, tally, layoutVars, window>>

\* The MenuCallback objects the items of ms point to.
RECURSIVE StoredCallbacks(_)
StoredCallbacks(ms) ==
    IF ms = <<>> THEN 0
    ELSE Cardinality({j \in 1 .. Len(Head(ms).items) : Head(ms).items[j].callback})
           + StoredCallbacks(Tail(ms))

\* The destructor has not run.
Alive == lastOp # "destroyed"

\* addMenu, called whether or not there is room.
AddMenuCall ==
    /\ Alive
    /\ menus' = addMenu(menus)
    /\ returned' = addMenuResult(menus)
    /\ lastOp' = "addMenu"
    /\ UNCHANGED heap
    /\ BuildFrame

\* The indices the sketch adds items at: before the first menu, the first
\* menu, and after the last menu.
AddIndices == {-1, 0, menuCount}

\* The link the sketch gives to the item it adds to the menu at menuIndex:
\* the number of items the menu holds, so that no two items of a menu are
\* alike.
LinkFor(menuIndex) ==
    IF menuIndex >= 0 /\ menuIndex < menuCount
    THEN Len(menus[menuIndex + 1].items) ELSE 0

\* addMenuItemWithFunction: creates the FunctionCallback when the index is
\* valid, and adds the item.
AddMenuItemWithFunction ==
    /\ Alive
    /\ heap.created - StoredCallbacks(menus) < MaxRejected
    /\ \E menuIndex \in AddIndices :
         /\ menus' = addMenuItem(menus, menuIndex, LinkFor(menuIndex), TRUE)
         /\ heap' = IF menuIndex >= 0 /\ menuIndex < menuCount
                    THEN [heap EXCEPT !.created = @ + 1] ELSE heap
    /\ lastOp' = "addItem"
    /\ UNCHANGED returned
    /\ BuildFrame

\* addMenuItem with a callback the sketch created for the first menu.
AddMenuItemWithCallback ==
    /\ Alive
    /\ menuCount > 0
    /\ heap.created - StoredCallbacks(menus) < MaxRejected
    /\ menus' = addMenuItem(menus, 0, LinkFor(0), TRUE)
    /\ heap' = [heap EXCEPT !.created = @ + 1]
    /\ lastOp' = "addItem"
    /\ UNCHANGED returned
    /\ BuildFrame

\* The destructor: deletes the callback of every item that has one and
\* clears the pointer.
Destroy ==
    /\ Alive
    /\ heap' = [heap EXCEPT !.deleted = @ + StoredCallbacks(menus)]
    /\ menus' = [i \in 1 .. Len(menus) |->
                   [menus[i] EXCEPT !.items =
                      [j \in 1 .. Len(menus[i].items) |->
                         [menus[i].items[j] EXCEPT !.callback = FALSE]]]]
    /\ lastOp' = "destroyed"
    /\ UNCHANGED returned
    /\ BuildFrame

NextBuild ==
    \/ AddMenuCall
    \/ AddMenuItemWithFunction
    \/ AddMenuItemWithCallback
    \/ Destroy
    \/ (Alive /\ SetCurrentMenu)

SpecBuild == Init /\ [][NextBuild]_vars

\* --------------------------------------------------------------- layout
\* Screen heights the sketch and the display report: 0 .. MaxHeight.
MaxHeight == 130

\* Conversion of an int to uint8_t.
U8(x) == x % 256

\* The C++ quotient a / b for b > 0: truncated towards zero.
CQuot(a, b) == IF a >= 0 THEN a \div b ELSE -((-a) \div b)

Layout ==
    [screenHeight |-> screenHeight, titleHeight |-> titleHeight,
     separatorY |-> separatorY, menuStartY |-> menuStartY,
     lineHeight |-> lineHeight, menuItemsVisible |-> menuItemsVisible,
     menuItemPadding |-> menuItemPadding]

\* The layout after a method returned l.
CommitLayout(l) ==
    /\ screenHeight' = l.screenHeight
    /\ titleHeight' = l.titleHeight
    /\ separatorY' = l.separatorY
    /\ menuStartY' = l.menuStartY
    /\ lineHeight' = l.lineHeight
    /\ menuItemsVisible' = l.menuItemsVisible
    /\ menuItemPadding' = l.menuItemPadding

\* menuItemsVisible = availableHeight / lineHeight, stored in a uint8_t, and
\* then raised to 1 when the stored value is below 1.
fitItems(l) ==
    LET availableHeight == l.screenHeight - l.menuStartY
        stored == U8(CQuot(availableHeight, l.lineHeight))
    IN [l EXCEPT !.menuItemsVisible = IF stored < 1 THEN 1 ELSE stored]

\* updateLayoutForFonts(), the display reporting the two font heights.
updateLayoutForFonts(l, stdFontHeight, titleFontHeight) ==
    LET th == U8(titleFontHeight + 2)
    IN fitItems([l EXCEPT !.titleHeight = th,
                          !.separatorY = th,
                          !.menuStartY = U8(th + 6),
                          !.lineHeight = U8(stdFontHeight + l.menuItemPadding)])

\* setScreenSize(width, height).
setScreenSize(l, height) ==
    LET th == IF height < 64 THEN 10 ELSE IF height >= 128 THEN 16 ELSE 12
    IN fitItems([l EXCEPT !.screenHeight = height,
                          !.titleHeight = th,
                          !.separatorY = th,
                          !.menuStartY = th + 10,
                          !.lineHeight = IF height <= 32 THEN 8
                                         ELSE IF height >= 128 THEN 12 ELSE 10])

\* setMenuItemPadding(padding).
setMenuItemPadding(l, padding, stdFontHeight, titleFontHeight) ==
    updateLayoutForFonts([l EXCEPT !.menuItemPadding = padding],
                         stdFontHeight, titleFontHeight)

\* setLayoutParameters(titleH, sepY, startY, lineH).
setLayoutParameters(l, titleH, sepY, startY, lineH, stdFontHeight) ==
    [l EXCEPT !.titleHeight = titleH,
              !.separatorY = sepY,
              !.menuStartY = startY,
              !.lineHeight = lineH,
              !.menuItemPadding = IF lineH > stdFontHeight
                                  THEN lineH - stdFontHeight ELSE 0]

\* begin(), the display reporting displayHeight (and a width that is valid
\* or not).
begin(l, stdFontHeight, titleFontHeight, widthValid, displayHeight) ==
    LET l1 == updateLayoutForFonts(l, stdFontHeight, titleFontHeight)
    IN IF widthValid /\ displayHeight > 0
       THEN setScreenSize([l1 EXCEPT !.screenHeight = displayHeight],
                          displayHeight)
       ELSE l1

\* getMaxCharHeight() of the standard fonts and of the title fonts a sketch
\* sets: u8g2_font_5x8_tr and u8g2_font_6x12_tr are the defaults.
StdFontHeights == {8, 10}
TitleFontHeights == {12, 14}
\* getDisplayHeight() of the displays: 0 when the display reports none.
DisplayHeights == {0, 32, 64, 128}
Paddings == {0, 2}
TitleHs == {12}
StartYs == {22, 40}
LineHs == {8, 20}

\* What a layout call leaves alone.
LayoutFrame ==
    /\ fired' = 0
    /\ events' = <<>>
    /\ UNCHANGED <<menus, currentMenuIndex, cursorPosition, isValueAdjustMode,
                   currentValueAdjuster, value, tempValue, adjCfg, inputMode,
                   buttonUpState, buttonDownState, buttonOkState,
                   lastButtonUpState, lastButtonDownState, lastButtonOkState,
                   encoderButtonState, lastEncoderButtonState,
                   lastDebounceTime, now, encoderCount, lastEncoderValue,
                   encoderAccumulator, encoderSensitivity, errorCode,
                   errorMessage, sessionDir, sessionEntry, called, held,
                   emitted, fresh, tally, returned, heap, window>>

Begin ==
    /\ \E stdFontHeight \in StdFontHeights, titleFontHeight \in TitleFontHeights,
          widthValid \in BOOLEAN, displayHeight \in DisplayHeights :
         CommitLayout(begin(Layout, stdFontHeight, titleFontHeight, widthValid,
                            displayHeight))
    /\ lastOp' = "begin"
    /\ LayoutFrame

SetScreenSize ==
    /\ \E height \in 0 .. MaxHeight : CommitLayout(setScreenSize(Layout, height))
    /\ lastOp' = "setScreenSize"
    /\ LayoutFrame

SetMenuItemPadding ==
    /\ \E padding \in Paddings, stdFontHeight \in StdFontHeights,
          titleFontHeight \in TitleFontHeights :
         CommitLayout(setMenuItemPadding(Layout, padding, stdFontHeight,
                                         titleFontHeight))
    /\ lastOp' = "setMenuItemPadding"
    /\ LayoutFrame

SetLayoutParameters ==
    /\ \E titleH \in TitleHs, startY \in StartYs, lineH \in LineHs,
          stdFontHeight \in StdFontHeights :
         CommitLayout(setLayoutParameters(Layout, titleH, titleH, startY, lineH,
                                          stdFontHeight))
    /\ lastOp' = "setLayoutParameters"
    /\ LayoutFrame

NextLayout ==
    \/ Begin
    \/ SetScreenSize
    \/ SetMenuItemPadding
    \/ SetLayoutParameters

SpecLayout == Init /\ [][NextLayout]_vars

\* -------------------------------------------------------- visible window
\* The menus of SpecWindow hold 1 .. MaxWindowItems items.
MaxWindowItems == 5

\* setMenuMaxVisibleItems(menuIndex, maxItems).
setMenuMaxVisibleItems(ms, menuIndex, maxItems) ==
    IF menuIndex >= 0 /\ menuIndex < Len(ms)
    THEN [ms EXCEPT ![menuIndex + 1].maxVisibleItems = maxItems]
    ELSE ms

\* displayMenu(): the number of items of menu it lets be visible.
visibleItems(menu) ==
    IF menu.maxVisibleItems > 0 /\ menu.maxVisibleItems < menuItemsVisible
    THEN menu.maxVisibleItems
    ELSE menuItemsVisible

\* displayMenu() whose window ends one item before the cursor.
displayStartShort(menu, cursor) ==
    LET start == IF cursor >= visibleItems(menu)
                 THEN cursor - visibleItems(menu) ELSE 0
    IN IF start + visibleItems(menu) > Len(menu.items)
       THEN IF Len(menu.items) - visibleItems(menu) < 0 THEN 0
            ELSE Len(menu.items) - visibleItems(menu)
       ELSE start

\* displayMenu(): the index of the first item it draws.
displayStart(menu, cursor) ==
    LET start == IF cursor >= visibleItems(menu)
                 THEN cursor - visibleItems(menu) + 1 ELSE 0
    IN IF start + visibleItems(menu) > Len(menu.items)
       THEN IF Len(menu.items) - visibleItems(menu) < 0 THEN 0
            ELSE Len(menu.items) - visibleItems(menu)
       ELSE start

\* displayMenu() draws the list of the current menu unless an error is
\* latched, an adjuster is being edited or there is no menu.
drawsList ==
    /\ ~(errorCode > 0)
    /\ ~(isValueAdjustMode /\ currentValueAdjuster # nullptr)
    /\ getCurrentMenu(Sys)

\* The sketch calls displayMenu().
DisplayMenu ==
    /\ window' = IF drawsList
                 THEN [drawn |-> TRUE,
                       displayStart |-> displayStart(CurrentMenu(Sys),
                                                     cursorPosition),
                       visibleItems |-> visibleItems(CurrentMenu(Sys))]
                 ELSE [window EXCEPT !.drawn = FALSE]
    /\ lastOp' = "displayMenu"
    /\ fired' = 0
    /\ events' = <<>>
    /\ UNCHANGED <<menus, currentMenuIndex, cursorPosition, isValueAdjustMode,
                   currentValueAdjuster, value, tempValue, adjCfg, inputMode,
                   buttonUpState, buttonDownState, buttonOkState,
                   lastButtonUpState, lastButtonDownState, lastButtonOkState,
                   encoderButtonState, lastEncoderButtonState,
                   lastDebounceTime, now, encoderCount, lastEncoderValue,
                   encoderAccumulator, encoderSensitivity, errorCode,
                   errorMessage, sessionDir, sessionEntry, called, held,
                   emitted, fresh, tally, returned, heap, layoutVars>>

SetMenuMaxVisibleItems ==
    /\ \E menuIndex \in {-1, 0, menuCount},
          maxItems \in -1 .. MaxWindowItems :
         menus' = setMenuMaxVisibleItems(menus, menuIndex, maxItems)
    /\ lastOp' = "other"
    /\ NavUnchanged

\* A sketch whose setup() added one menu of 1 .. MaxWindowItems plain items.
InitWindow ==
    /\ Constructed(INPUT_BUTTONS, 1)
    /\ Bound
    /\ \E n \in 1 .. MaxWindowItems :
         menus = addPlainItems(addMenu(<<>>), 0, n)

NextWindow ==
    \/ MoveUp
    \/ MoveDown
    \/ SetMenuMaxVisibleItems
    \/ Begin
    \/ DisplayMenu

SpecWindow == InitWindow /\ [][NextWindow]_vars

\* ------------------------------------------------------ value adjusters
\* A sketch whose adjusters have any bounds with min <= max, either policy
\* and a bound variable that starts in range or not, and that calls setValue
\* on them itself.  One of the two numeric adjusters has the default
\* configuration, and the sketch calls setValue on the other one (on either
\* when both have it) and on the Boolean one.
Whole(S) == {v \in S : v % Scale = 0}
Bounds == 0 .. MaxV * Scale
ArgValues == -(Scale + 1) .. MaxV * Scale + Scale + 1

FloatCfgs ==
    {c \in [increment : {1, Scale + 1}, minValue : Bounds, maxValue : Bounds,
            wrapAround : BOOLEAN] : c.minValue <= c.maxValue}
IntCfgs ==
    {c \in [increment : {Scale}, minValue : Whole(Bounds),
            maxValue : Whole(Bounds), wrapAround : BOOLEAN] :
       c.minValue <= c.maxValue}

InitAdjust ==
    /\ Constructed(INPUT_BUTTONS, 1)
    /\ menus = <<>>
    /\ adjCfg \in {[DefaultCfg EXCEPT !.F = c] : c \in FloatCfgs}
                    \cup {[DefaultCfg EXCEPT !.I = c] : c \in IntCfgs}
    /\ \E f \in {FloatCfg.minValue, FloatCfg.maxValue + 1},
          i \in {IntCfg.minValue, IntCfg.maxValue + Scale}, b \in BOOLEAN :
         /\ value = [F |-> f, I |-> i, B |-> b]
         /\ tempValue = b

\* The sketch calls adjuster.setValue(newValue) on one of its adjusters.
SetValue(adj, newValue) ==
    /\ Commit(setValue(Sys, adj, newValue))
    /\ lastOp' = "setValue"
    /\ called' = [adj |-> adj, arg |-> newValue]
    /\ UNCHANGED <<menus, adjCfg, inputMode, now, encoderSensitivity,
                   held, emitted, fresh, tally, returned, heap,
                   layoutVars, window>>

SetValueCall == \E adj \in AllAdjusters, newValue \in ArgValues :
                    /\ adj = "F" => adjCfg.I = DefaultCfg.I
                    /\ adj = "I" => adjCfg.F = DefaultCfg.F
                    /\ SetValue(adj, newValue)

NextAdjust == SetValueCall

SpecAdjust == InitAdjust /\ [][NextAdjust]_vars

\* ================================================================ claims
\* The item the cursor is on, when the cursor is on an item.
CursorOnItem == getCurrentMenu(Sys) /\ 0 <= cursorPosition
                /\ cursorPosition < itemCount(Sys)
ItemAtCursor == CurrentMenu(Sys).items[cursorPosition + 1]
Browsing == ~isValueAdjustMode

\* C1: in Browsing on a menu of N > 0 items with the cursor in [0, N), Down
\* moves the cursor to (cursor + 1) mod N and Up to (cursor - 1) mod N, so the
\* cursor stays in [0, N) and wraps at 0 and at N - 1.
C1_CursorWraps ==
    [][(Browsing /\ CursorOnItem) =>
         /\ MoveDown => cursorPosition' = (cursorPosition + 1) % itemCount(Sys)
         /\ MoveUp => cursorPosition' = (cursorPosition - 1) % itemCount(Sys)
         /\ (MoveUp \/ MoveDown) =>
               (0 <= cursorPosition' /\ cursorPosition' < itemCount(Sys))]_vars

\* C1 witness: on a menu of three items the cursor has been moved to the last.
C1_Witness ==
    /\ Browsing /\ CursorOnItem
    /\ itemCount(Sys) = 3 /\ cursorPosition = 2

\* C2: in Browsing on a menu with zero items, Up and Down change neither the
\* cursor, the active menu nor the edit state.
C2_EmptyMenuNoOp ==
    [][(Browsing /\ getCurrentMenu(Sys) /\ itemCount(Sys) = 0
          /\ (MoveUp \/ MoveDown)) =>
         UNCHANGED <<cursorPosition, currentMenuIndex, isValueAdjustMode,
                     currentValueAdjuster>>]_vars

\* C3: whenever the active menu has items, the cursor is on one of them:
\* 0 <= cursorPosition < itemCount.
C3_CursorInRange ==
    (getCurrentMenu(Sys) /\ itemCount(Sys) > 0) =>
        (0 <= cursorPosition /\ cursorPosition < itemCount(Sys))

\* TRUE when some menu has the id; i is then the index of the first such menu
\* when IsFirstWithId(i, id).
Resolves(id) == \E i \in 1 .. menuCount : menus[i].id = id
IsFirstWithId(i, id) ==
    /\ 0 <= i /\ i < menuCount
    /\ menus[i + 1].id = id
    /\ \A j \in 0 .. i - 1 : menus[j + 1].id # id

\* Every item with a callback links to menu id 1 and binds no adjuster, and
\* there is such an item in the menu at index m.
CallbackItemsLinkIn(m) ==
    /\ \A i \in 1 .. menuCount : \A k \in 1 .. Len(menus[i].items) :
         menus[i].items[k].callback =>
           (menus[i].items[k].nextMenuId = 1
              /\ menus[i].items[k].valueAdjuster = nullptr)
    /\ m < menuCount
    /\ \E k \in 1 .. Len(menus[m + 1].items) : menus[m + 1].items[k].callback

\* C4: in Browsing, select on an item that binds a value adjuster enters edit
\* mode with exactly that adjuster as target, runs no callback and moves
\* neither the active menu nor the cursor.
C4_SelectEntersEdit ==
    [][(Browsing /\ CursorOnItem /\ ItemAtCursor.valueAdjuster # nullptr
          /\ Select) =>
         /\ isValueAdjustMode'
         /\ currentValueAdjuster' = ItemAtCursor.valueAdjuster
         /\ fired' = 0
         /\ UNCHANGED <<currentMenuIndex, cursorPosition>>]_vars

\* C4 witness: select has entered edit mode on the value item under a cursor
\* that is not at the top.
C4_Witness ==
    /\ lastOp = "select" /\ isValueAdjustMode /\ CursorOnItem
    /\ cursorPosition > 0
    /\ currentValueAdjuster = ItemAtCursor.valueAdjuster
    /\ fired = 0

\* C5: in Browsing, select on an item without adjuster whose nextMenuId is
\* the id of an existing menu makes the first menu with that id the active
\* one, puts the cursor at 0 and stays in Browsing.
C5_SelectNavigates ==
    [][(Browsing /\ CursorOnItem /\ ItemAtCursor.valueAdjuster = nullptr
          /\ ItemAtCursor.nextMenuId >= 0 /\ Resolves(ItemAtCursor.nextMenuId)
          /\ Select) =>
         /\ IsFirstWithId(currentMenuIndex', ItemAtCursor.nextMenuId)
         /\ cursorPosition' = 0
         /\ ~isValueAdjustMode']_vars

\* C5 witness: a select that ran a callback of the first menu ended on the
\* second menu, which has no items, with the cursor at 0.
C5_Witness ==
    /\ lastOp = "select" /\ fired = 1 /\ Browsing
    /\ menuCount = 2 /\ currentMenuIndex = 1 /\ cursorPosition = 0
    /\ menus[2].items = <<>>
    /\ CallbackItemsLinkIn(0)

\* C6: select on an item with a callback and a resolvable nextMenuId runs the
\* callback and then navigates: whatever the callback did, the resolved menu
\* is active and the cursor is 0 afterwards.
C6_TriggerThenNavigate ==
    [][(CursorOnItem /\ ItemAtCursor.valueAdjuster = nullptr
          /\ ItemAtCursor.callback
          /\ ItemAtCursor.nextMenuId >= 0 /\ Resolves(ItemAtCursor.nextMenuId)
          /\ Select) =>
         /\ fired' = 1
         /\ IsFirstWithId(currentMenuIndex', ItemAtCursor.nextMenuId)
         /\ cursorPosition' = 0]_vars

\* C6 witness: a select ran a callback of the second menu, whose callback
\* items all link to that menu, and the cursor is at 0 of that menu.
C6_Witness ==
    /\ lastOp = "select" /\ fired = 1
    /\ currentMenuIndex = 1 /\ cursorPosition = 0
    /\ CallbackItemsLinkIn(1)
    /\ ~menus[2].items[1].callback

\* C7 as claimed: in Browsing, select on an item whose nextMenuId >= 0 is the
\* id of no menu leaves the active menu and the cursor unchanged and stays in
\* Browsing.
C7_DanglingUnchanged ==
    [][(Browsing /\ CursorOnItem /\ ItemAtCursor.valueAdjuster = nullptr
          /\ ItemAtCursor.nextMenuId >= 0 /\ ~Resolves(ItemAtCursor.nextMenuId)
          /\ Select) =>
         /\ UNCHANGED <<currentMenuIndex, cursorPosition>>
         /\ ~isValueAdjustMode']_vars

\* C7 amended: such a select stays in Browsing and the unknown id changes
\* nothing: the active menu and the cursor are unchanged when the item has no
\* callback, and are what the callback left when it has one.
C7_DanglingIgnored ==
    [][(Browsing /\ CursorOnItem /\ ItemAtCursor.valueAdjuster = nullptr
          /\ ItemAtCursor.nextMenuId >= 0 /\ ~Resolves(ItemAtCursor.nextMenuId)
          /\ Select) =>
         /\ ~isValueAdjustMode'
         /\ IF ItemAtCursor.callback
            THEN \E act \in TriggerActs :
                   /\ currentMenuIndex' = execute(Sys, act).currentMenuIndex
                   /\ cursorPosition' = execute(Sys, act).cursorPosition
            ELSE UNCHANGED <<currentMenuIndex, cursorPosition>>]_vars

\* C7 witness: select was called in a sketch with one menu, on an item that
\* links to menu id 1, and the cursor is still on that item.
C7_Witness ==
    /\ lastOp = "select" /\ fired = 0 /\ Browsing
    /\ menuCount = 1 /\ CursorOnItem /\ cursorPosition > 0
    /\ ItemAtCursor.nextMenuId = 1 /\ ~ItemAtCursor.callback
    /\ ItemAtCursor.valueAdjuster = nullptr

\* C8 as claimed: goBack in Browsing always ends with the first menu active
\* and the cursor at 0.
C8_GoBackHome ==
    [][(Browsing /\ GoBack) =>
         (currentMenuIndex' = 0 /\ cursorPosition' = 0)]_vars

\* C8 amended: goBack in Browsing ends with the first menu active; the cursor
\* is 0 when another menu was active and is unchanged when the first menu
\* already was.
C8_GoBackFromOther ==
    [][(Browsing /\ GoBack) =>
         /\ currentMenuIndex' = 0
         /\ cursorPosition' = IF currentMenuIndex > 0 THEN 0
                              ELSE cursorPosition]_vars

\* C8 witness: goBack was called with the first menu active and has left the
\* cursor on an item other than the first.
C8_Witness ==
    /\ lastOp = "goBack" /\ Browsing
    /\ currentMenuIndex = 0 /\ CursorOnItem /\ cursorPosition > 0

\* The direction of the last Up or Down event in evs, or default when evs has
\* none.
LastDirection(evs, default) ==
    LET ds == {i \in 1 .. Len(evs) : evs[i] \in {"Up", "Down"}}
    IN IF ds = {} THEN default
       ELSE evs[CHOOSE i \in ds : \A j \in ds : j <= i]

\* C9: while a Boolean adjuster is being edited, an update cycle that
\* dispatches no Confirm leaves the committed value as it was, whatever Up and
\* Down events it dispatches.
C9_DirectionKeepsCommitted ==
    [][(isValueAdjustMode /\ currentValueAdjuster = "B" /\ Update
          /\ \A i \in 1 .. Len(events') : events'[i] # "Confirm") =>
         value'["B"] = value["B"]]_vars

\* C10: when Confirm ends a Boolean edit session, the committed value is the
\* pending value chosen by the session's last directional event (Up: true,
\* Down: false), or the value at entry when the session had none.
C10_ConfirmCommitsPending ==
    [][(isValueAdjustMode /\ currentValueAdjuster = "B" /\ Update
          /\ ~isValueAdjustMode') =>
         LET dir == LastDirection(events', sessionDir)
         IN value'["B"] = IF dir = "Up" THEN TRUE
                          ELSE IF dir = "Down" THEN FALSE
                          ELSE sessionEntry]_vars

\* The number the adjuster's policy stores for v: Wrap sends a v above max to
\* min and a v below min to max, Clamp sends it to the nearer bound, and a v
\* in range is kept.
Policy(cfg, v) ==
    IF v > cfg.maxValue THEN (IF cfg.wrapAround THEN cfg.minValue ELSE cfg.maxValue)
    ELSE IF v < cfg.minValue
         THEN (IF cfg.wrapAround THEN cfg.maxValue ELSE cfg.minValue)
    ELSE v
Numeric == {"F", "I"}
InRange(cfg, v) == cfg.minValue <= v /\ v <= cfg.maxValue

C13_ValueInRange ==
    [][\A adj \in Numeric :
         /\ (\E v \in ArgValues : SetValue(adj, v)) =>
               InRange(adjCfg[adj], value'[adj])
         /\ InRange(adjCfg[adj], value[adj]) =>
               InRange(adjCfg[adj], value'[adj])]_vars

\* C13 witness: under Clamp, setValue was called on the Integer adjuster with
\* an argument below min, and min is stored.
C13_Witness ==
    /\ lastOp = "setValue" /\ called.adj = "I"
    /\ ~IntCfg.wrapAround /\ IntCfg.minValue < IntCfg.maxValue
    /\ called.arg < IntCfg.minValue
    /\ value["I"] = IntCfg.minValue

\* C14: setValue(x) on the Boolean adjuster stores the negation of the stored
\* boolean, whatever x is, and leaves the pending value alone.
C14_BoolSetValueToggles ==
    [][\A v \in ArgValues :
         SetValue("B", v) =>
           (value'["B"] = ~value["B"] /\ tempValue' = tempValue)]_vars

\* C14 witness: setValue(0) was called on the Boolean adjuster and the stored
\* boolean is true, while the pending value is false.
C14_Witness ==
    /\ lastOp = "setValue" /\ called.adj = "B" /\ called.arg = 0
    /\ value["B"] /\ ~tempValue

\* The value a numeric adjuster holds after the directional events of evs, in
\* their order, when Up stores the policy's result for value + increment and
\* Down for value - increment.
RECURSIVE AfterEvents(_, _, _)
AfterEvents(cfg, v, evs) ==
    IF evs = <<>> THEN v
    ELSE AfterEvents(cfg,
                     IF Head(evs) = "Up" THEN Policy(cfg, v + cfg.increment)
                     ELSE IF Head(evs) = "Down" THEN Policy(cfg, v - cfg.increment)
                     ELSE v,
                     Tail(evs))
EditingNumeric == isValueAdjustMode /\ currentValueAdjuster \in Numeric
Dispatched(e) == \E i \in 1 .. Len(events') : events'[i] = e

\* The step is an update() cycle: update alone records "update" in lastOp.
Cycled == lastOp' = "update"

\* C11: while a Float or Integer adjuster is edited, moveUp stores what
\* setValue stores for getValue() + increment and moveDown what it stores for
\* getValue() - increment, and so does every Up and Down event of an update
\* cycle in button mode and in encoder mode; nothing else changes.
C11_StepBySetValue ==
    [][EditingNumeric =>
         LET adj == currentValueAdjuster
             cfg == adjCfg[adj]
         IN /\ MoveUp => value'[adj] = Policy(cfg, value[adj] + cfg.increment)
            /\ MoveDown => value'[adj] = Policy(cfg, value[adj] - cfg.increment)
            /\ Cycled => value'[adj] = AfterEvents(cfg, value[adj], events')
            /\ (MoveUp \/ MoveDown \/ Cycled) =>
                 /\ \A other \in AllAdjusters \ {adj} : value'[other] = value[other]
                 /\ UNCHANGED <<currentMenuIndex, cursorPosition, tempValue>>]_vars

\* C11 witness: in encoder mode an Up event of an update cycle has wrapped the
\* edited Float value from max to min.
C11_Witness ==
    /\ inputMode = INPUT_ENCODER /\ lastOp = "update" /\ events = <<"Up">>
    /\ isValueAdjustMode /\ currentValueAdjuster = "F"
    /\ FloatCfg.wrapAround /\ FloatCfg.minValue < FloatCfg.maxValue
    /\ value["F"] = FloatCfg.minValue

\* C15: in Editing, an update cycle that dispatches Confirm ends in Browsing
\* with no edit target and the same active menu and cursor; when Confirm is
\* the cycle's only event and the target is Float or Integer, the bound value
\* is unchanged.
C15_ConfirmExits ==
    [][(isValueAdjustMode /\ errorCode = 0 /\ Cycled /\ Dispatched("Confirm")) =>
         /\ ~isValueAdjustMode'
         /\ currentValueAdjuster' = nullptr
         /\ UNCHANGED <<currentMenuIndex, cursorPosition>>
         /\ (EditingNumeric /\ events' = <<"Confirm">>) => value' = value]_vars

\* C15 witness: a cycle whose only event was Confirm has ended on the Integer
\* item in Browsing (on that item Confirm in Browsing enters edit mode), and
\* the edited value max is still stored.
C15_Witness ==
    /\ lastOp = "update" /\ events = <<"Confirm">>
    /\ ~isValueAdjustMode /\ currentValueAdjuster = nullptr
    /\ CursorOnItem /\ ItemAtCursor.valueAdjuster = "I"
    /\ IntCfg.minValue < IntCfg.maxValue /\ value["I"] = IntCfg.maxValue

\* C16: the edit target is non-null exactly when the edit mode flag is set.
C16_TargetIffEditMode ==
    (currentValueAdjuster # nullptr) <=> isValueAdjustMode

\* C16 witness: the Boolean adjuster is being edited while the second menu is
\* the active one.
C16_Witness ==
    /\ isValueAdjustMode /\ currentValueAdjuster = "B"
    /\ currentMenuIndex = 1

\* C17: in Editing, moveUp, moveDown, goBack and every update cycle that
\* dispatches no Confirm leave the system in Editing with the same target.
C17_EditUntilConfirm ==
    [][(isValueAdjustMode
          /\ (MoveUp \/ MoveDown \/ GoBack
                \/ (Cycled /\ ~Dispatched("Confirm")))) =>
         (isValueAdjustMode' /\ currentValueAdjuster' = currentValueAdjuster)]_vars

\* C17 witness: goBack was called while the Float adjuster was edited, and it
\* still is.
C17_Witness ==
    /\ lastOp = "goBack" /\ isValueAdjustMode /\ currentValueAdjuster = "F"

\* The cycle dispatched the event of button b (in encoder mode Up and Down
\* come from the encoder, not from a button).
ButtonEvent(b) ==
    (inputMode = INPUT_BUTTONS \/ b = "ok") /\ Dispatched(eventOf(b))

\* C18: an update cycle dispatches the event of a button only when the
\* button's sampled level has been asserted and unchanged for longer than
\* debounceDelay; a level asserted for debounceDelay or less, or released
\* again within it, dispatches nothing.
C18_NoEventWithinWindow ==
    [][UpdateSampled =>
         \A b \in Buttons : ButtonEvent(b) => held'[b] > debounceDelay]_vars

\* C18 witness: the Up level has been asserted for a time within the window,
\* starting from the released state, and no Up event has been dispatched.
C18_Witness ==
    /\ inputMode = INPUT_BUTTONS /\ lastOp = "update"
    /\ held["up"] > 0 /\ held["up"] <= debounceDelay
    /\ fresh["up"] /\ emitted["up"] = 0

\* C19: a button whose level, asserted from the debounced released state,
\* has been held unchanged for longer than debounceDelay has dispatched
\* exactly one event for that press, and no press dispatches more than one
\* however long the level stays asserted.
C19_OneEventPerPress ==
    \A b \in Buttons :
      /\ (held[b] > debounceDelay /\ fresh[b]) => emitted[b] = 1
      /\ emitted[b] <= 1

\* C20: in button mode, the cycle in which a button's level, asserted from
\* the debounced released state, has first been stable for longer than
\* debounceDelay dispatches that button's event, whatever the levels of the
\* other buttons did meanwhile.
C20_PerButtonDebounce ==
    [][(inputMode = INPUT_BUTTONS /\ UpdateSampled) =>
         \A b \in Buttons :
           (held[b] <= debounceDelay /\ held'[b] > debounceDelay /\ fresh'[b]) =>
             ButtonEvent(b)]_vars

\* The level of button b, sampled asserted by this cycle and by the one
\* before, was first sampled asserted before the clock last wrapped: the
\* time since then is more than the clock now shows.
SpansWrap(b) ==
    /\ held'[b] > 0 /\ held[b] <= debounceDelay
    /\ held[b] + elapsed(now', now) > now'

\* C21: a press from the debounced released state whose level has been
\* asserted and unchanged since before the clock wrapped dispatches its event
\* in the cycle that first finds it stable for longer than debounceDelay, once
\* only, and in no earlier cycle.
C21_DebounceAcrossWrap ==
    [][UpdateSampled =>
         \A b \in Buttons :
           ((inputMode = INPUT_BUTTONS \/ b = "ok") /\ SpansWrap(b) /\ fresh'[b]) =>
             /\ held'[b] > debounceDelay => (ButtonEvent(b) /\ emitted'[b] = 1)
             /\ held'[b] <= debounceDelay => ~ButtonEvent(b)]_vars

\* Some decomposition total = k * s + r with |r| < s has k and r satisfy P.
Decomposes(total, s, k, r) == total = k * s + r /\ Mag(r) < s

\* C22 (as stated): the raw position deltas the cycles observed sum to
\* k * s + r with |r| < s, exactly |k| step events were dispatched, all in
\* the direction of the sum's sign, and the accumulator equals r.
C22_AccumulatorTotals ==
    LET total == lastEncoderValue
        s == encoderSensitivity
    IN /\ \E k \in -(MaxTally * 2) .. MaxTally * 2 :
            /\ Decomposes(total, s, k, encoderAccumulator)
            /\ tally.pos + tally.neg = Mag(k)
       /\ total >= 0 => tally.neg = 0
       /\ total <= 0 => tally.pos = 0

\* C22 (amended): the signs of the raw position deltas the cycles observed
\* sum to k * s + r with |r| < s, where k is the number of step events
\* dispatched in the positive direction less the number dispatched in the
\* negative direction, and r is the accumulator.
C22_AccumulatorTotalsOfSigns ==
    /\ Decomposes(tally.signs, encoderSensitivity,
                  tally.pos - tally.neg, encoderAccumulator)
    /\ tally.pos >= 0 /\ tally.neg >= 0

\* C22 witness: with a sensitivity of 2, steps have been dispatched in both
\* directions and a remainder is left in the accumulator.
C22_Witness ==
    /\ inputMode = INPUT_ENCODER /\ lastOp = "update"
    /\ encoderSensitivity = 2
    /\ tally.pos >= 1 /\ tally.neg >= 1 /\ encoderAccumulator # 0

\* The step events of the cycle, counted with their direction.
NetSteps == Count(events', posEvent) - Count(events', negEvent)

C24_AccumulatorBelowSensitivity ==
    [][(inputMode = INPUT_ENCODER /\ Cycled) =>
         LET d == sign(encoderCount' - lastEncoderValue)
             reached == encoderAccumulator + d
             stepped == d # 0 /\ Mag(reached) >= encoderSensitivity
         IN /\ Mag(encoderAccumulator') < encoderSensitivity
            /\ stepped <=> (Dispatched("Up") \/ Dispatched("Down"))
            /\ stepped => NetSteps = sign(reached)]_vars

\* C24 witness: with a sensitivity of 2 a step in the negative direction has
\* been dispatched and the accumulator is back to 0.
C24_Witness ==
    /\ inputMode = INPUT_ENCODER /\ lastOp = "update"
    /\ encoderSensitivity = 2 /\ events = <<"Up">> /\ ~isValueAdjustMode
    /\ encoderAccumulator = 0 /\ tally.neg = 1

\* C25: in encoder mode every entry into edit mode leaves lastEncoderValue
\* equal to the count the encoder reports, and a cycle in edit mode that
\* reads the count last read dispatches no Up/Down event and changes neither
\* a Float/Integer value nor the pending Boolean: movement from before the
\* entry has no effect after it.
C25_EditEntryResyncs ==
    [][inputMode = INPUT_ENCODER =>
         /\ (~isValueAdjustMode /\ isValueAdjustMode') =>
              lastEncoderValue' = encoderCount'
         /\ (isValueAdjustMode /\ Cycled /\ encoderCount' = lastEncoderValue) =>
              /\ ~Dispatched("Up") /\ ~Dispatched("Down")
              /\ tempValue' = tempValue
              /\ \A adj \in Numeric : value'[adj] = value[adj]]_vars

\* C25 witness: the knob was turned, no cycle read the new count, and
\* select() has entered edit mode on the Float item: the count last read is
\* the one the encoder reports, and the value is the initial one.
C25_Witness ==
    /\ inputMode = INPUT_ENCODER /\ lastOp = "select"
    /\ isValueAdjustMode /\ currentValueAdjuster = "F"
    /\ encoderCount # 0 /\ lastEncoderValue = encoderCount
    /\ encoderAccumulator = 0 /\ encoderSensitivity = 1
    /\ value["F"] = FloatCfg.minValue

\* C26: a Confirm dispatched while an error is latched clears the latch
\* (errorCode 0, empty message) and does nothing else: no callback runs, the
\* active menu, the edit mode and the edit target stay as they were, and when
\* Confirm is the cycle's only event so do the cursor, the values and the
\* pending Boolean; a Confirm dispatched in edit mode when no error is
\* latched leaves edit mode as usual.
C26_ConfirmClearsError ==
    [][(Cycled /\ Dispatched("Confirm")) =>
         IF errorCode > 0
         THEN /\ errorCode' = 0 /\ errorMessage' = ""
              /\ fired' = 0
              /\ UNCHANGED <<currentMenuIndex, isValueAdjustMode,
                             currentValueAdjuster>>
              /\ events' = <<"Confirm">> =>
                   UNCHANGED <<cursorPosition, value, tempValue>>
         ELSE isValueAdjustMode => ~isValueAdjustMode']_vars

\* C26 witness: a Confirm has cleared the error that was latched while the
\* Boolean adjuster was edited with a pending value different from the
\* stored one; the edit goes on and the pending value is not committed.
C26_Witness ==
    /\ lastOp = "update" /\ events = <<"Confirm">>
    /\ errorCode = 0 /\ errorMessage = ""
    /\ isValueAdjustMode /\ currentValueAdjuster = "B"
    /\ tempValue # value["B"]

\* C27: an update cycle run while an error is latched changes neither the
\* cursor, the active menu, any adjuster's value nor the pending Boolean.
C27_ErrorPreemptsInput ==
    [][(errorCode > 0 /\ Cycled) =>
         UNCHANGED <<cursorPosition, currentMenuIndex, value, tempValue>>]_vars

\* ms2 holds every menu and item of ms, at the same place.
Keeps(ms, ms2) ==
    /\ Len(ms2) >= Len(ms)
    /\ \A i \in 1 .. Len(ms) :
         /\ ms2[i].id = ms[i].id
         /\ Len(ms2[i].items) >= Len(ms[i].items)
         /\ \A j \in 1 .. Len(ms[i].items) : ms2[i].items[j] = ms[i].items[j]

\* C28: addMenu with 32 menus returns -1 and changes nothing; an add of an
\* item changes nothing unless it appends one item to a menu that held fewer
\* than 16; no add overwrites a menu or an item; there are never more than 32
\* menus nor more than 16 items in a menu.
C28_CapacityNoOp ==
    [][(lastOp' = "addMenu" \/ lastOp' = "addItem") =>
         /\ Keeps(menus, menus')
         /\ Len(menus') <= MAX_MENU_DEPTH
         /\ \A i \in 1 .. Len(menus') : Len(menus'[i].items) <= MAX_MENU_ITEMS
         /\ (lastOp' = "addMenu" /\ menuCount = MAX_MENU_DEPTH) =>
              (returned' = -1 /\ menus' = menus)
         /\ (lastOp' = "addItem" /\ menus' # menus) =>
              /\ Len(menus') = Len(menus)
              /\ TotalItems(menus') = TotalItems(menus) + 1
         /\ UNCHANGED <<currentMenuIndex, cursorPosition, isValueAdjustMode,
                        currentValueAdjuster>>]_vars

\* C28 witness: an item was added to the first menu when it held 16 items,
\* there are 32 menus, and the last addMenu returned -1: the 16th item is the
\* one stored as 16th.
C28_Witness ==
    /\ lastOp = "addItem" /\ menuCount = MAX_MENU_DEPTH /\ returned = -1
    /\ Len(menus[1].items) = MAX_MENU_ITEMS
    /\ menus[1].items[MAX_MENU_ITEMS].nextMenuId = MAX_MENU_ITEMS - 1
    /\ heap.created > MAX_MENU_ITEMS

\* C29: once the destructor has run, every MenuCallback object created for
\* the system has been deleted once.
C29_CallbacksReleased ==
    lastOp = "destroyed" => heap.deleted = heap.created

\* C30: the menu at index i has id i, findMenuById(i) is i for
\* 0 <= i < menuCount and -1 for every other id, a successful addMenu returns
\* the index of the menu it added (the k-th one k - 1), and getCurrentMenuId
\* is the active menu's id, -1 when there is no menu.
C30_IdsAreIndices ==
    /\ \A i \in 0 .. menuCount - 1 :
         menus[i + 1].id = i /\ findMenuById(i) = i
    /\ \A id \in {-2, -1, menuCount, menuCount + 1, MAX_MENU_DEPTH} :
         id >= menuCount \/ id < 0 => findMenuById(id) = -1
    /\ (lastOp = "addMenu" /\ returned # -1) => returned = menuCount - 1
    /\ getCurrentMenuId(Sys) = IF menuCount = 0 THEN -1
                               ELSE menus[currentMenuIndex + 1].id

\* C30 witness: the third menu is the active one and the 32nd addMenu has
\* returned 31.
C30_Witness ==
    /\ lastOp = "addMenu" /\ returned = MAX_MENU_DEPTH - 1
    /\ menuCount = MAX_MENU_DEPTH /\ currentMenuIndex = 2
    /\ getCurrentMenuId(Sys) = 2


\* The visible-item count the layout members call for.
visibleFor(sh, startY, lineH) ==
    LET floored == IF sh >= startY THEN (sh - startY) \div lineH
                   ELSE -((startY - sh + lineH - 1) \div lineH)
    IN IF floored < 1 THEN 1 ELSE floored

LayoutOps == {"begin", "setScreenSize", "setMenuItemPadding",
              "setLayoutParameters"}

\* C31: after begin, setScreenSize, setMenuItemPadding and
\* setLayoutParameters the stored visible-item count is
\* max(1, floor((screenHeight - menuStartY) / lineHeight)) of the stored
\* screenHeight, menuStartY and lineHeight, also when the screen height is
\* below menuStartY.
C31_VisibleCount ==
    lastOp \in LayoutOps =>
        menuItemsVisible = visibleFor(screenHeight, menuStartY, lineHeight)

Max(a, b) == IF a >= b THEN a ELSE b

\* The visible count of the claim: the menu's maxVisibleItems when it is set
\* and smaller than the computed count, else the computed count.
VisibleCount ==
    LET own == menus[currentMenuIndex + 1].maxVisibleItems
    IN IF own > 0 /\ own < menuItemsVisible THEN own ELSE menuItemsVisible

WindowHolds(start) ==
    /\ start <= cursorPosition /\ cursorPosition < start + VisibleCount
    /\ 0 <= start /\ start <= Max(0, itemCount(Sys) - VisibleCount)

\* C32: for a menu with items and a cursor on one of them, the first item
\* displayMenu draws is the smallest start with
\* start <= cursor < start + visibleCount and
\* 0 <= start <= max(0, itemCount - visibleCount), which is 0 whenever
\* cursor < visibleCount; visibleCount is the menu's maxVisibleItems when
\* that is set and smaller than the computed count, else the computed count.
C32_VisibleWindow ==
    (lastOp = "displayMenu" /\ itemCount(Sys) > 0
       /\ cursorPosition >= 0 /\ cursorPosition < itemCount(Sys)) =>
        /\ window.drawn
        /\ window.visibleItems = VisibleCount
        /\ WindowHolds(window.displayStart)
        /\ \A start \in 0 .. window.displayStart - 1 : ~WindowHolds(start)
        /\ cursorPosition < VisibleCount => window.displayStart = 0

\* displayMenu drew a window that had to scroll, of a menu whose own
\* maxVisibleItems overrides the computed count.
C32_Witness ==
    /\ lastOp = "displayMenu"
    /\ window.drawn
    /\ window.displayStart > 0
    /\ menus[currentMenuIndex + 1].maxVisibleItems = window.visibleItems
    /\ window.visibleItems < menuItemsVisible
    /\ window.displayStart + window.visibleItems < itemCount(Sys)

\* The step is a cycle that dispatched Up or Down events and no other.
DirectionalCycle ==
    /\ Cycled
    /\ events' # <<>>
    /\ \A i \in 1 .. Len(events') : events'[i] \in {"Up", "Down"}

\* C33: in Browsing, moveUp, moveDown and the Up and Down events of an update
\* cycle change only cursorPosition: the active menu, the edit state and the
\* committed and pending values of every adjuster stay; in Editing they change
\* only the value or the pending value of the edit target: cursorPosition,
\* the active menu and all other adjusters stay.
C33_DirectionOneJob ==
    [][(DirectionalCycle \/ (lastOp' = "other" /\ (MoveUp \/ MoveDown))) =>
         IF isValueAdjustMode
         THEN /\ UNCHANGED <<cursorPosition, currentMenuIndex>>
              /\ \A other \in AllAdjusters \ {currentValueAdjuster} :
                   value'[other] = value[other]
              /\ currentValueAdjuster # "B" => tempValue' = tempValue
         ELSE UNCHANGED <<currentMenuIndex, isValueAdjustMode,
                          currentValueAdjuster, value, tempValue>>]_vars

\* C33 witness: a cycle whose only event was Down has changed the edited
\* Float value, the cursor still on the value item above the plain items.
C33_Witness ==
    /\ lastOp = "update" /\ events = <<"Down">>
    /\ isValueAdjustMode /\ currentValueAdjuster = "F"
    /\ value["F"] # FloatCfg.minValue
    /\ cursorPosition = 0 /\ itemCount(Sys) = 3

\* C34: select() reads items[cursorPosition] of the active menu only when
\* 0 <= cursorPosition < itemCount, after every sequence of addMenu, item
\* additions, moveUp, moveDown, goBack, setCurrentMenu and select; on an empty
\* menu and with no menus it changes nothing.
C34_SelectInBounds ==
    [][lastOp' = "select" =>
         /\ (getCurrentMenu(Sys) /\ cursorPosition < itemCount(Sys)) =>
              cursorPosition >= 0
         /\ (~getCurrentMenu(Sys) \/ itemCount(Sys) = 0) =>
              UNCHANGED <<menus, currentMenuIndex, cursorPosition,
                          isValueAdjustMode, currentValueAdjuster, value,
                          tempValue>>]_vars

\* C35: in Editing the edit target is the adjuster of the item at
\* cursorPosition of the active menu, and no step that stays in Editing
\* (moveUp, moveDown, goBack, setCurrentMenu, select, update cycles) changes
\* the active menu, the cursor or the edit target.
C35_EditTargetAtCursor ==
    [][(isValueAdjustMode /\ isValueAdjustMode') =>
         /\ CursorOnItem
         /\ ItemAtCursor.valueAdjuster = currentValueAdjuster
         /\ UNCHANGED <<currentMenuIndex, cursorPosition,
                        currentValueAdjuster>>]_vars

\* C36: once a menu exists the active menu index is a valid index,
\* 0 <= currentMenuIndex < menuCount; the index select, goBack and
\* setCurrentMenu have stored is 0 or the index a successful id lookup
\* returns; setCurrentMenu with an id no menu has changes nothing.
C36_ValidMenuIndex ==
    /\ menuCount > 0 => (0 <= currentMenuIndex /\ currentMenuIndex < menuCount)
    /\ \/ currentMenuIndex = 0
       \/ \E id \in 0 .. MaxMenus : findMenuById(id) = currentMenuIndex
    /\ \A menuId \in 0 .. MaxMenus :
         findMenuById(menuId) < 0 => setCurrentMenu(Sys, menuId) = Sys

\* C36 witness: select has made the last of the menus the active one.
C36_Witness ==
    /\ lastOp = "select" /\ fired = 0
    /\ menuCount > 1 /\ currentMenuIndex = menuCount - 1

\* The accumulator of the cycle after the sign of the observed change was
\* added and before the step is taken off.
AccumulatorReached ==
    encoderAccumulator + sign(encoderCount' - lastEncoderValue)

\* The cycle observed a change of the count and resolved a step.
ResolvedStep ==
    /\ inputMode = INPUT_ENCODER
    /\ Cycled
    /\ encoderCount' # lastEncoderValue
    /\ Mag(AccumulatorReached) >= encoderSensitivity

\* C37: in encoder mode a resolved step with a positive accumulator moves the
\* cursor down in Browsing, stores what setValue stores for value + increment
\* when a Float or Integer is edited and sets the pending value to true when
\* the Boolean is edited; with a negative accumulator it moves the cursor up,
\* stores value - increment, and sets the pending value to false.
C37_EncoderDispatch ==
    [][(ResolvedStep /\ ~Dispatched("Confirm")) =>
         LET positive == AccumulatorReached > 0
             adj == currentValueAdjuster
         IN IF ~isValueAdjustMode
            THEN /\ cursorPosition' =
                      IF positive
                      THEN (IF cursorPosition < itemCount(Sys) - 1
                            THEN cursorPosition + 1 ELSE 0)
                      ELSE (IF cursorPosition > 0
                            THEN cursorPosition - 1 ELSE itemCount(Sys) - 1)
                 /\ UNCHANGED <<value, tempValue>>
            ELSE IF adj = "B"
            THEN tempValue' = positive /\ UNCHANGED <<value, cursorPosition>>
            ELSE /\ value'[adj] =
                      Policy(adjCfg[adj],
                             value[adj] + (IF positive THEN adjCfg[adj].increment
                                           ELSE -adjCfg[adj].increment))
                 /\ UNCHANGED <<tempValue, cursorPosition>>]_vars

\* C37 witness: with a sensitivity of MaxSens a step resolved with a positive
\* accumulator has moved the cursor down from the value item to the first of
\* the plain items, where moveUp would have wrapped to the last.
C37_Witness ==
    /\ inputMode = INPUT_ENCODER /\ encoderSensitivity = MaxSens
    /\ lastOp = "update" /\ events = <<"Down">>
    /\ ~isValueAdjustMode /\ cursorPosition = 1 /\ itemCount(Sys) = 3
    /\ encoderAccumulator = 0

\* C38: for every sensitivity the encoder-mode constructor stores, 0 and
\* negative values included, a cycle that reaches
\* encoderAccumulator % encoderSensitivity does not divide by zero, and the
\* accumulator stays below the size of the sensitivity.
C38_AnySensitivity ==
    [][/\ ResolvedStep => encoderSensitivity # 0
       /\ lastOp' # "trapped"
       /\ Cycled => Mag(encoderAccumulator') <= Mag(encoderSensitivity)]_vars

============================================================================
